---- MODULE Spec2Model ----
(***************************************************************************)
(* Bohemian Heat Map: Portland.  A model of the grid builder, the          *)
(* proximity scorer and the category filter panel of the browser           *)
(* application (app.js), and of its neighborhood code: the boundary        *)
(* reconstructor (chainWays), the geometry kernel and loadNeighborhoods;   *)
(* of loadData with loadAllBusinesses, and of the refresh script           *)
(* fetch-data.js that writes businesses-data.json.                         *)
(*                                                                         *)
(* Number representation.  The source computes in IEEE doubles; the model  *)
(* computes in fixed point:                                                *)
(*   - coordinates are integers in units of 1e-5 degree                    *)
(*     (45.43 deg = 4543000, GRID_LAT_STEP 0.00724 deg = 724);             *)
(*   - distances are whole metres;                                         *)
(*   - proximity scores are thousandths of a point (100 = 100000).         *)
(* Rounding of doubles in the last place is therefore not represented.     *)
(***************************************************************************)
EXTENDS Integers, Sequences, FiniteSets, TLC

(***************************************************************************)
(* Bounds of the model.                                                    *)
(***************************************************************************)
\* The modelled regions are at most MaxRows grid rows high ...
MaxRows == 2
\* ... and at most MaxCols grid columns wide.
MaxCols == 2
\* allBusinesses holds at most MaxBusinesses records.
MaxBusinesses == 2
\* calculateProximityScores runs at most MaxPasses times on the same cells.
MaxPasses == 2
\* The pipeline (generateGridCells, then calculateProximityScores) runs at
\* most MaxRuns times.
MaxRuns == 2

(***************************************************************************)
(* Program constants (units of 1e-5 degree, metres).                       *)
(***************************************************************************)
PORTLAND_BBOX_south == 4543000
PORTLAND_BBOX_west == -12284000
PORTLAND_BBOX_north == 4565000
PORTLAND_BBOX_east == -12247000
GRID_SIZE_M == 804
GRID_LAT_STEP == 724
GRID_LON_STEP == 1030
\* let minDistance = Infinity: larger than every distance of the model.
Infinity == 1000000000
\* 100 * Math.exp(0), in thousandths of a point.
ScoreMax == 100000
\* The 0.5 km decay length of the score, in metres.
DecayLengthM == 500
\* Kilometres per degree of latitude (6371 * pi / 180) and of longitude
\* at Portland's latitude (times cos 45.5 deg).
LatKmPerDegree == 111
LonKmPerDegree == 78

\* The category ids of getCategoryDefinitions the model keeps.
Categories == {"vegan-restaurants", "indie-coffee"}

\* null (cell.nearestBusiness before any business was seen).
null == [id |-> 0, lat |-> 0, lon |-> 0, category |-> ""]

\* {} : a JS object without own properties.
EmptyObject == [c \in {} |-> <<>>]

\* A property that was never assigned (cell.minDistance, cell.businessCount
\* on a cell generateGridCells has just built).
undefined == -1

(***************************************************************************)
(* The region configuration.  generateGridCells reads PORTLAND_BBOX and    *)
(* the two grid steps; the model runs it on the south-west corner of the   *)
(* Portland box, cut to at most MaxRows x MaxCols cells: either cut on a   *)
(* grid line (the range is a whole number of steps) or keeping the partial *)
(* last row / column the real box has (its range modulo the step).         *)
(***************************************************************************)
PortlandLatRemainder ==
    (PORTLAND_BBOX_north - PORTLAND_BBOX_south) % GRID_LAT_STEP

PortlandLonRemainder ==
    (PORTLAND_BBOX_east - PORTLAND_BBOX_west) % GRID_LON_STEP

\* The range of a region of n rows (columns): the last one whole or partial.
RangeOfCells(n, step, partial, remainder) ==
    IF partial THEN (n - 1) * step + remainder ELSE n * step

Regions ==
    {[south |-> PORTLAND_BBOX_south,
      west |-> PORTLAND_BBOX_west,
      north |-> PORTLAND_BBOX_south
                  + RangeOfCells(rows, GRID_LAT_STEP, partial, PortlandLatRemainder),
      east |-> PORTLAND_BBOX_west
                  + RangeOfCells(cols, GRID_LON_STEP, partial, PortlandLonRemainder)] :
        rows \in 1..MaxRows, cols \in 1..MaxCols, partial \in BOOLEAN}

(***************************************************************************)
(* The business records the data layer can deliver.  Positions are given   *)
(* relative to the south-west corner of the region:                        *)
(*   1: the exact centre of cell (0,0);                                    *)
(*   2: the corner shared by cells (0,0), (0,1), (1,0), (1,1);             *)
(*   3: south of the region, inside no cell;                               *)
(*   4: inside cell (0,1), off-centre.                                     *)
(***************************************************************************)
BusinessAt(id, dLat, dLon, category) ==
    [id |-> id,
     lat |-> PORTLAND_BBOX_south + dLat,
     lon |-> PORTLAND_BBOX_west + dLon,
     category |-> category]

BusinessRecords ==
    {BusinessAt(1, GRID_LAT_STEP \div 2, GRID_LON_STEP \div 2, "vegan-restaurants"),
     BusinessAt(2, GRID_LAT_STEP, GRID_LON_STEP, "indie-coffee"),
     BusinessAt(3, 0 - 500, GRID_LON_STEP \div 2, "vegan-restaurants"),
     BusinessAt(4, 100, GRID_LON_STEP + 470, "indie-coffee")}

\* The sequences of distinct records of length n.
RECURSIVE BusinessListsOfLen(_)
BusinessListsOfLen(n) ==
    IF n = 0 THEN {<<>>}
    ELSE {Append(s, b) : s \in BusinessListsOfLen(n - 1), b \in BusinessRecords}

HasNoRepeat(s) == \A i, j \in DOMAIN s : i # j => s[i] # s[j]

BusinessLists ==
    {s \in UNION {BusinessListsOfLen(n) : n \in 0..MaxBusinesses} : HasNoRepeat(s)}

(***************************************************************************)
(* State.                                                                  *)
(***************************************************************************)
VARIABLES
    region,                \* PORTLAND_BBOX as configured
    phase,                 \* position of the DOMContentLoaded handler
    allBusinesses,         \* let allBusinesses = []
    gridCells,             \* let gridCells = []
    activeCategoryFilters, \* let activeCategoryFilters = new Set()
    categoryCheckboxes,    \* .category-checkbox value -> checked
    selectAllCheckbox,     \* .select-all-checkbox: [checked, indeterminate]
    businessMarkers,       \* the businesses that have a marker on the layer
    passes,                \* scoring passes run on the current gridCells
    pipelineRuns,          \* scoring passes run on freshly generated cells
    lastRanking,           \* <<row, col, score>> of the last pipeline run
    waySegments,           \* chainWays: its argument
    chainStep,             \* chainWays: "idle", "called" or "returned"
    chainOutcome,          \* chainWays: the value returned
    geometry,              \* geometry kernel: the geometry argument
    point,                 \* isPointInPolygon: the query point
    kernelStep,            \* geometry kernel: the function that has returned
    kernelOutcome,         \* geometry kernel: [value, threw] of the call
    overpassResponse,      \* loadNeighborhoods: what the area search answers
    loadStep,              \* loadNeighborhoods: the await it stands at
    sourcesAttempted,      \* loadNeighborhoods: the sources tried, in order
    neighborhoods,         \* loadNeighborhoods: the array returned
    cacheResponse,         \* loadData: what fetch('businesses-data.json') gives
    dataStep,              \* loadData: the await it stands at
    overpassRequests,      \* loadData: categories requested from Overpass
    overpassAnswers,       \* loadAllBusinesses: category -> settled answer
    fetchStep,             \* fetch-data.js main: the await it stands at
    fetchIndex,            \* fetch-data.js main: position in Object.entries
    requestsInFlight,      \* fetch-data.js: categories with an open request
    scriptBusinesses,      \* fetch-data.js main: const allBusinesses = []
    fetchLog,              \* fetch-data.js: requests, answers, delays in order
    outputFile             \* businesses-data.json as written by the script

\* The grid, the scorer and the filter panel.
pipelineVars ==
    <<region, phase, allBusinesses, gridCells, activeCategoryFilters,
      categoryCheckboxes, selectAllCheckbox, businessMarkers, passes,
      pipelineRuns, lastRanking>>

\* A call of chainWays.
chainVars == <<waySegments, chainStep, chainOutcome>>

\* A call of calculateBounds, calculateArea or isPointInPolygon.
kernelVars == <<geometry, point, kernelStep, kernelOutcome>>

\* A call of loadNeighborhoods.
loadVars == <<overpassResponse, loadStep, sourcesAttempted, neighborhoods>>

\* A call of loadData, with the loadAllBusinesses it may make.
dataVars == <<cacheResponse, dataStep, overpassRequests, overpassAnswers>>

\* A run of fetch-data.js.
fetchVars ==
    <<fetchStep, fetchIndex, requestsInFlight, scriptBusinesses, fetchLog,
      outputFile>>

vars == <<pipelineVars, chainVars, kernelVars, loadVars, dataVars, fetchVars>>

\* chainWays has not been called.
ChainIdle ==
    /\ waySegments = <<>>
    /\ chainStep = "idle"
    /\ chainOutcome = <<>>

\* No geometry kernel function has been called.
KernelIdle ==
    /\ geometry = <<>>
    /\ point = [lat |-> 0, lon |-> 0]
    /\ kernelStep = "idle"
    /\ kernelOutcome = [value |-> 0, threw |-> ""]

\* loadNeighborhoods has not been called (the page never calls it).
LoadIdle ==
    /\ overpassResponse = <<>>
    /\ loadStep = "idle"
    /\ sourcesAttempted = <<>>
    /\ neighborhoods = <<>>

\* loadData is not followed step by step.
DataIdle ==
    /\ cacheResponse = [kind |-> "none", businesses |-> <<>>]
    /\ dataStep = "idle"
    /\ overpassRequests = {}
    /\ overpassAnswers = EmptyObject

\* fetch-data.js is not running.
FetchIdle ==
    /\ fetchStep = "idle"
    /\ fetchIndex = 0
    /\ requestsInFlight = {}
    /\ scriptBusinesses = <<>>
    /\ fetchLog = <<>>
    /\ outputFile = <<>>

(***************************************************************************)
(* Grid Builder: generateGridCells.                                        *)
(***************************************************************************)
\* Math.floor(range / step): a grid that drops the partial last row.
MathFloorDiv(range, step) == range \div step

\* Math.ceil(range / step) for positive integers.
MathCeilDiv(range, step) == (range + step - 1) \div step

latCellsOf(bbox) == MathCeilDiv(bbox.north - bbox.south, GRID_LAT_STEP)

lonCellsOf(bbox) == MathCeilDiv(bbox.east - bbox.west, GRID_LON_STEP)

\* id: i * latCells + j (the multiplier of the other axis).
cellIdWrongAxis(i, j, latCells, lonCells) == i * latCells + j

cellId(i, j, latCells, lonCells) == i * lonCells + j

\* The object pushed for row i, column j.
makeCell(bbox, i, j, latCells, lonCells) ==
    LET south == bbox.south + i * GRID_LAT_STEP
        north == south + GRID_LAT_STEP
        west == bbox.west + j * GRID_LON_STEP
        east == west + GRID_LON_STEP
    IN  [id |-> cellId(i, j, latCells, lonCells),
         row |-> i,
         col |-> j,
         centerLat |-> (south + north) \div 2,
         centerLon |-> (west + east) \div 2,
         geometry |-> <<[lat |-> south, lon |-> west],
                        [lat |-> north, lon |-> west],
                        [lat |-> north, lon |-> east],
                        [lat |-> south, lon |-> east],
                        [lat |-> south, lon |-> west]>>,
         bounds |-> [minLat |-> south, maxLat |-> north,
                     minLon |-> west, maxLon |-> east],
         area |-> GRID_SIZE_M * GRID_SIZE_M,
         proximityScore |-> 0,
         nearestBusiness |-> null,
         businesses |-> <<>>,
         businessesByCategory |-> EmptyObject,
         minDistance |-> undefined,
         businessCount |-> undefined]

\* for (let j = 0; j < lonCells; j++) cells.push(...)
RECURSIVE gridColumnLoop(_, _, _, _, _, _)
gridColumnLoop(bbox, i, j, latCells, lonCells, cells) ==
    IF j < lonCells
    THEN gridColumnLoop(bbox, i, j + 1, latCells, lonCells,
                        Append(cells, makeCell(bbox, i, j, latCells, lonCells)))
    ELSE cells

\* for (let i = 0; i < latCells; i++) ...
RECURSIVE gridRowLoop(_, _, _, _, _)
gridRowLoop(bbox, i, latCells, lonCells, cells) ==
    IF i < latCells
    THEN gridRowLoop(bbox, i + 1, latCells, lonCells,
                     gridColumnLoop(bbox, i, 0, latCells, lonCells, cells))
    ELSE cells

generateGridCells(bbox) ==
    gridRowLoop(bbox, 0, latCellsOf(bbox), lonCellsOf(bbox), <<>>)

(***************************************************************************)
(* Geometry kernel: calculateDistance.  The haversine distance of two      *)
(* points a few kilometres apart, in whole metres: the square root of the  *)
(* squared north-south and east-west offsets, each converted with the      *)
(* kilometres per degree at Portland's latitude.                           *)
(***************************************************************************)
Abs(x) == IF x < 0 THEN 0 - x ELSE x

\* Math.sqrt, rounded down: the largest r in lo..hi with r * r <= x.
RECURSIVE SqrtSearch(_, _, _)
SqrtSearch(x, lo, hi) ==
    IF lo >= hi THEN lo
    ELSE LET mid == (lo + hi + 1) \div 2
         IN  IF mid * mid <= x
             THEN SqrtSearch(x, mid, hi)
             ELSE SqrtSearch(x, lo, mid - 1)

MathSqrt(x) == SqrtSearch(x, 0, 46340)

calculateDistance(lat1, lon1, lat2, lon2) ==
    LET dLatM == (Abs(lat2 - lat1) * LatKmPerDegree) \div 100
        dLonM == (Abs(lon2 - lon1) * LonKmPerDegree) \div 100
    IN  MathSqrt(dLatM * dLatM + dLonM * dLonM)

(***************************************************************************)
(* Proximity Scorer: calculateProximityScores.                             *)
(***************************************************************************)
\* score * e^(-1), n times (one decay length each).
RECURSIVE DecayHalfKm(_, _)
DecayHalfKm(n, score) ==
    IF n = 0 THEN score ELSE DecayHalfKm(n - 1, (score * 3679) \div 10000)

\* score * e^(-0.02), n times (10 metres each).
RECURSIVE DecayTenM(_, _)
DecayTenM(n, score) ==
    IF n = 0 THEN score ELSE DecayTenM(n - 1, (score * 9802) \div 10000)

\* 100 * Math.exp(-minDistance / 0.5), minDistance taken in steps of 10 m.
MathExpScore(minDistance) ==
    DecayTenM((minDistance % DecayLengthM) \div 10,
              DecayHalfKm(minDistance \div DecayLengthM, ScoreMax))

\* A linear fall-off, 100 * (1 - minDistance / 0.5), never clamped.
proximityScoreLinear(minDistance) ==
    IF minDistance < Infinity
    THEN ScoreMax - (ScoreMax \div DecayLengthM) * minDistance
    ELSE 0

\* if (minDistance < Infinity) ... else cell.proximityScore = 0
proximityScore(minDistance) ==
    IF minDistance < Infinity THEN MathExpScore(minDistance) ELSE 0

\* The last business scanned always replaces the nearest one.
isCloserAlways(distance, minDistance) == TRUE

\* if (distance < minDistance)
isCloser(distance, minDistance) == distance < minDistance

\* The north and east edges of a cell left out of it.
isWithinBoundsHalfOpen(business, bounds) ==
    /\ business.lat >= bounds.minLat
    /\ business.lat < bounds.maxLat
    /\ business.lon >= bounds.minLon
    /\ business.lon < bounds.maxLon

\* business.lat >= minLat && business.lat <= maxLat && (same for lon)
isWithinBounds(business, bounds) ==
    /\ business.lat >= bounds.minLat
    /\ business.lat <= bounds.maxLat
    /\ business.lon >= bounds.minLon
    /\ business.lon <= bounds.maxLon

\* let minDistance = 0
scanStartAtZero(cell) ==
    [minDistance |-> 0,
     nearestBusiness |-> null,
     businesses |-> cell.businesses]

\* let minDistance = Infinity; let nearestBusiness = null; and the array
\* cell.businesses the loop pushes onto, as it stands when the pass begins.
scanStart(cell) ==
    [minDistance |-> Infinity,
     nearestBusiness |-> null,
     businesses |-> cell.businesses]

\* The body of allBusinesses.forEach(business => ...) for one business.
scanBusiness(cell, acc, business) ==
    LET distance == calculateDistance(cell.centerLat, cell.centerLon,
                                      business.lat, business.lon)
        closer == isCloser(distance, acc.minDistance)
    IN  [minDistance |-> IF closer THEN distance ELSE acc.minDistance,
         nearestBusiness |-> IF closer THEN business ELSE acc.nearestBusiness,
         businesses |-> IF isWithinBounds(business, cell.bounds)
                        THEN Append(acc.businesses, business)
                        ELSE acc.businesses]

\* allBusinesses.forEach, from index k on.
RECURSIVE scanBusinesses(_, _, _, _)
scanBusinesses(cell, businesses, k, acc) ==
    IF k > Len(businesses) THEN acc
    ELSE scanBusinesses(cell, businesses, k + 1,
                        scanBusiness(cell, acc, businesses[k]))

\* const cat = b.category || 'unknown'
categoryOf(b) == IF b.category # "" THEN b.category ELSE "unknown"

\* cell.businesses.forEach(b => ... businessesByCategory[cat].push(b)),
\* from index k on.
RECURSIVE groupByCategory(_, _, _)
groupByCategory(businesses, k, byCategory) ==
    IF k > Len(businesses) THEN byCategory
    ELSE LET b == businesses[k]
             cat == categoryOf(b)
             bucket == IF cat \in DOMAIN byCategory THEN byCategory[cat] ELSE <<>>
         IN  groupByCategory(businesses, k + 1,
                 [c \in DOMAIN byCategory \cup {cat} |->
                     IF c = cat THEN Append(bucket, b) ELSE byCategory[c]])

\* The body of gridCells.forEach(cell => ...): one cell scored in place.
scoreCell(cell, businesses) ==
    LET acc == scanBusinesses(cell, businesses, 1, scanStart(cell))
    IN  [cell EXCEPT
            !.nearestBusiness = acc.nearestBusiness,
            !.minDistance = acc.minDistance,
            !.proximityScore = proximityScore(acc.minDistance),
            !.businesses = acc.businesses,
            !.businessCount = Len(acc.businesses),
            !.businessesByCategory = groupByCategory(acc.businesses, 1, EmptyObject)]

\* The comparator (a, b) => a.proximityScore - b.proximityScore: ascending.
comesBeforeAscending(a, b) == a.proximityScore < b.proximityScore

\* The comparator (a, b) => b.proximityScore - a.proximityScore is negative:
\* a sorts before b.
comesBefore(a, b) == b.proximityScore - a.proximityScore < 0

\* cell put into an already sorted array, behind every element that does
\* not have to come after it (Array.prototype.sort is stable).
RECURSIVE insertSorted(_, _)
insertSorted(sorted, cell) ==
    IF sorted = <<>> THEN <<cell>>
    ELSE LET last == sorted[Len(sorted)]
         IN  IF comesBefore(cell, last)
             THEN Append(insertSorted(SubSeq(sorted, 1, Len(sorted) - 1), cell), last)
             ELSE Append(sorted, cell)

\* gridCells.sort(comparator), the elements taken in array order from k on.
RECURSIVE arraySort(_, _, _)
arraySort(cells, k, sorted) ==
    IF k > Len(cells) THEN sorted
    ELSE arraySort(cells, k + 1, insertSorted(sorted, cells[k]))

calculateProximityScores(cells, businesses) ==
    arraySort([k \in DOMAIN cells |-> scoreCell(cells[k], businesses)], 1, <<>>)

\* <<row, col, score>> of every cell, in ranking order.
rankingOf(cells) ==
    [k \in DOMAIN cells |-> <<cells[k].row, cells[k].col, cells[k].proximityScore>>]

(***************************************************************************)
(* Initial state: the page before DOMContentLoaded.                        *)
(***************************************************************************)
Init ==
    /\ region \in Regions
    /\ phase = "start"
    /\ allBusinesses = <<>>
    /\ gridCells = <<>>
    /\ activeCategoryFilters = {}
    /\ categoryCheckboxes = EmptyObject
    /\ selectAllCheckbox = [checked |-> FALSE, indeterminate |-> FALSE]
    /\ businessMarkers = <<>>
    /\ passes = 0
    /\ pipelineRuns = 0
    /\ lastRanking = <<>>
    /\ ChainIdle
    /\ KernelIdle
    /\ LoadIdle
    /\ DataIdle
    /\ FetchIdle

\* loadData: the businesses arrive (cache file or Overpass), every category
\* becomes active, the grid is generated.
LoadData ==
    /\ phase = "start"
    /\ \E loaded \in BusinessLists : allBusinesses' = loaded
    /\ activeCategoryFilters' = activeCategoryFilters \cup Categories
    /\ gridCells' = generateGridCells(region)
    /\ phase' = "loaded"
    /\ passes' = 0
    /\ UNCHANGED <<region, categoryCheckboxes, selectAllCheckbox,
                   businessMarkers, pipelineRuns, lastRanking>>
    /\ UNCHANGED <<chainVars, kernelVars, loadVars, dataVars, fetchVars>>

(***************************************************************************)
(* Presentation layer: the marker layer and the filter panel.              *)
(***************************************************************************)
\* addBusinessMarkers: clearLayers, then one marker per business whose
\* category is in the active filters and has a category definition.
addBusinessMarkers(filters) ==
    SelectSeq(allBusinesses,
              LAMBDA business :
                  business.category \in filters /\ business.category \in Categories)

\* A filter change that also rebuilds and rescores the grid from the
\* businesses of the active categories.
refreshMarkersAndRescore(filters) ==
    /\ businessMarkers' = addBusinessMarkers(filters)
    /\ gridCells' =
         calculateProximityScores(
             generateGridCells(region),
             SelectSeq(allBusinesses, LAMBDA business : business.category \in filters))
    /\ passes' = 1
    /\ UNCHANGED <<pipelineRuns, lastRanking>>

\* refreshBusinessMarkers: addBusinessMarkers() and nothing else.
refreshBusinessMarkers(filters) ==
    /\ businessMarkers' = addBusinessMarkers(filters)
    /\ UNCHANGED <<gridCells, passes, pipelineRuns, lastRanking>>

\* A select-all checkbox that is checked as soon as one category is.
updateSelectAllOnSome(checkboxes) ==
    [checked |-> \E c \in DOMAIN checkboxes : checkboxes[c],
     indeterminate |-> FALSE]

\* updateSelectAll, for the given state of the category checkboxes.
updateSelectAll(checkboxes) ==
    LET allChecked == \A c \in DOMAIN checkboxes : checkboxes[c]
        someChecked == \E c \in DOMAIN checkboxes : checkboxes[c]
    IN  [checked |-> allChecked, indeterminate |-> someChecked /\ ~allChecked]

\* The scorer scanning only the businesses of the active categories.
scannedBusinessesFiltered ==
    SelectSeq(allBusinesses, LAMBDA business : business.category \in activeCategoryFilters)

\* The array calculateProximityScores scans: allBusinesses.forEach(...).
scannedBusinesses == allBusinesses

\* calculateProximityScores() on the current gridCells.  lastRanking keeps
\* the outcome of a pass on freshly generated cells (a pipeline run).
runProximityScorer ==
    /\ gridCells' = calculateProximityScores(gridCells, scannedBusinesses)
    /\ passes' = passes + 1
    /\ pipelineRuns' = IF passes = 0 THEN pipelineRuns + 1 ELSE pipelineRuns
    /\ lastRanking' = IF passes = 0 THEN rankingOf(gridCells') ELSE lastRanking

\* The DOMContentLoaded handler after loadData: initializeFilterPanel()
\* (every checkbox created checked, updateSelectAll) and renderMap()
\* (calculateProximityScores, addBusinessMarkers).
RenderMap ==
    /\ phase = "loaded"
    /\ categoryCheckboxes' = [c \in Categories |-> TRUE]
    /\ selectAllCheckbox' = updateSelectAll(categoryCheckboxes')
    /\ runProximityScorer
    /\ businessMarkers' = addBusinessMarkers(activeCategoryFilters)
    /\ phase' = "ready"
    /\ UNCHANGED <<region, allBusinesses, activeCategoryFilters>>
    /\ UNCHANGED <<chainVars, kernelVars, loadVars, dataVars, fetchVars>>

\* The change handler of one category checkbox: the user has toggled it.
CategoryCheckboxChange(categoryId) ==
    /\ phase = "ready"
    /\ LET isChecked == ~categoryCheckboxes[categoryId]
       IN  /\ categoryCheckboxes' = [categoryCheckboxes EXCEPT ![categoryId] = isChecked]
           /\ activeCategoryFilters' =
                IF isChecked
                THEN activeCategoryFilters \cup {categoryId}
                ELSE activeCategoryFilters \ {categoryId}
    /\ selectAllCheckbox' = updateSelectAll(categoryCheckboxes')
    /\ refreshBusinessMarkers(activeCategoryFilters')
    /\ UNCHANGED <<region, phase, allBusinesses>>
    /\ UNCHANGED <<chainVars, kernelVars, loadVars, dataVars, fetchVars>>

\* The change handler of the select-all checkbox: the user has toggled it
\* (a click also clears its indeterminate state).
SelectAllChange ==
    /\ phase = "ready"
    /\ LET isChecked == ~selectAllCheckbox.checked
       IN  /\ selectAllCheckbox' = [checked |-> isChecked, indeterminate |-> FALSE]
           /\ categoryCheckboxes' = [c \in DOMAIN categoryCheckboxes |-> isChecked]
           /\ activeCategoryFilters' =
                IF isChecked
                THEN activeCategoryFilters \cup DOMAIN categoryCheckboxes
                ELSE activeCategoryFilters \ DOMAIN categoryCheckboxes
    /\ refreshBusinessMarkers(activeCategoryFilters')
    /\ UNCHANGED <<region, phase, allBusinesses>>
    /\ UNCHANGED <<chainVars, kernelVars, loadVars, dataVars, fetchVars>>

\* calculateProximityScores() called again on the cells gridCells holds:
\* a further pass on scored cells, or the pass of a pipeline re-run.
CalculateProximityScores ==
    /\ phase = "ready"
    /\ passes < MaxPasses
    /\ runProximityScorer
    /\ UNCHANGED <<region, phase, allBusinesses, activeCategoryFilters,
                   categoryCheckboxes, selectAllCheckbox, businessMarkers>>
    /\ UNCHANGED <<chainVars, kernelVars, loadVars, dataVars, fetchVars>>

\* gridCells = generateGridCells() called again: the first half of a
\* pipeline re-run.
GenerateGridCells ==
    /\ phase = "ready"
    /\ passes > 0
    /\ pipelineRuns < MaxRuns
    /\ gridCells' = generateGridCells(region)
    /\ passes' = 0
    /\ UNCHANGED <<region, phase, allBusinesses, activeCategoryFilters,
                   categoryCheckboxes, selectAllCheckbox, businessMarkers,
                   pipelineRuns, lastRanking>>
    /\ UNCHANGED <<chainVars, kernelVars, loadVars, dataVars, fetchVars>>

Next ==
    \/ LoadData
    \/ RenderMap
    \/ \E categoryId \in Categories : CategoryCheckboxChange(categoryId)
    \/ SelectAllChange
    \/ CalculateProximityScores
    \/ GenerateGridCells

Spec == Init /\ [][Next]_vars

\* The state of the page for the functions that are checked on their own.
PipelineIdle ==
    /\ region = CHOOSE r \in Regions : TRUE
    /\ phase = "idle"
    /\ allBusinesses = <<>>
    /\ gridCells = <<>>
    /\ activeCategoryFilters = {}
    /\ categoryCheckboxes = EmptyObject
    /\ selectAllCheckbox = [checked |-> FALSE, indeterminate |-> FALSE]
    /\ businessMarkers = <<>>
    /\ passes = 0
    /\ pipelineRuns = 0
    /\ lastRanking = <<>>

(***************************************************************************)
(* Boundary reconstructor: chainWays.                                      *)
(*                                                                         *)
(* Positions are in units of 1e-5 degree from a local origin south-west of *)
(* every point (chainWays only compares coordinate differences).           *)
(***************************************************************************)
\* chainWays is called with at most MaxSegments way segments.
MaxSegments == 4

\* const tolerance = 0.0001 (degrees) in coordsMatch.
CoordTolerance == 10

\* The corners of a square, and a point within the tolerance of corner A.
CornerA == [lat |-> 200, lon |-> 200]
CornerB == [lat |-> 400, lon |-> 200]
CornerC == [lat |-> 400, lon |-> 400]
CornerD == [lat |-> 200, lon |-> 400]
NearA == [lat |-> 205, lon |-> 200]
NearB == [lat |-> 405, lon |-> 200]
NearC == [lat |-> 395, lon |-> 400]

\* The coordinate lists of the ways of the Overpass answer, by way id: the
\* four sides of the square in ring order, side BC reversed, side DA ending
\* near A, two ways of three nodes, a way whose two nodes are within the
\* tolerance of each other, and a way that is a closed ring by itself.  The
\* last four are the ring A NearA B C NearC D A cut at A, NearA, C and NearC,
\* which has two ways shorter than the tolerance.
WayCoords ==
    <<  <<CornerA, CornerB>>,
        <<CornerB, CornerC>>,
        <<CornerC, CornerD>>,
        <<CornerD, CornerA>>,
        <<CornerC, CornerB>>,
        <<CornerD, NearA>>,
        <<CornerA, CornerB, CornerC>>,
        <<CornerC, CornerD, CornerA>>,
        <<CornerB, NearB>>,
        <<CornerA, CornerB, CornerC, CornerA>>,
        <<CornerA, NearA>>,
        <<NearA, CornerB, CornerC>>,
        <<CornerC, NearC>>,
        <<NearC, CornerD, CornerA>>  >>

\* One element of outerWayMembers, as buildGeometryFromRelationData makes it.
outerWayMember(ref) ==
    [id |-> ref,
     coords |-> WayCoords[ref],
     startNode |-> WayCoords[ref][1],
     endNode |-> WayCoords[ref][Len(WayCoords[ref])]]

\* relation.members.filter(...).map(...).filter(w => w !== null): the outer
\* ways of the relation that the answer contains, for the way refs of the
\* members.
RECURSIVE outerWayMembersOf(_)
outerWayMembersOf(members) ==
    IF members = <<>> THEN <<>>
    ELSE IF Head(members) \in DOMAIN WayCoords
    THEN <<outerWayMember(Head(members))>> \o outerWayMembersOf(Tail(members))
    ELSE outerWayMembersOf(Tail(members))

\* The ways that are listed in every combination.
CombinedWays == 1..10

\* The way refs of the arguments of chainWays: up to MaxSegments different
\* ways, in any order.
WayRefLists ==
    {refs \in UNION {[1..n -> CombinedWays] : n \in 0..MaxSegments} :
        HasNoRepeat(refs)}

\* The arguments of chainWays.
WaySegmentLists == {outerWayMembersOf(refs) : refs \in WayRefLists}

\* Ways that together are one simple closed ring: A B C D A cut in four
\* ways, and the ring with the two short ways.
SimpleRings ==
    {<<1, 2, 3, 4>>, <<7, 8>>, <<1, 2, 8>>, <<7, 3, 4>>, <<11, 12, 13, 14>>}

\* The members of such a ring in every order.
RingRefLists ==
    UNION {{refs \in [DOMAIN ring -> {ring[k] : k \in DOMAIN ring}] :
               HasNoRepeat(refs)} : ring \in SimpleRings}

\* way.nodes listed from the other end.
RECURSIVE nodesBackwards(_)
nodesBackwards(coords) ==
    IF coords = <<>> THEN <<>>
    ELSE nodesBackwards(Tail(coords)) \o <<Head(coords)>>

\* A way whose nodes the answer lists in the other direction.
reversedWayMember(ref) ==
    [id |-> ref,
     coords |-> nodesBackwards(WayCoords[ref]),
     startNode |-> WayCoords[ref][Len(WayCoords[ref])],
     endNode |-> WayCoords[ref][1]]

\* The outer way members for refs, those at the positions in flipped being
\* listed in the other direction.
RECURSIVE arrangedMembers(_, _, _)
arrangedMembers(refs, flipped, k) ==
    IF k > Len(refs) THEN <<>>
    ELSE <<IF k \in flipped THEN reversedWayMember(refs[k])
           ELSE outerWayMember(refs[k])>>
         \o arrangedMembers(refs, flipped, k + 1)

\* The ways of a simple ring in any order, each in either direction.
RingArrangements ==
    UNION {{arrangedMembers(refs, flipped, 1) : flipped \in SUBSET DOMAIN refs} :
              refs \in RingRefLists}

\* chainWays returning null (it never returns an empty array).
nullRing == <<>>

\* coordsMatch(a, b).
coordsMatch(a, b) ==
    /\ Abs(a.lat - b.lat) < CoordTolerance
    /\ Abs(a.lon - b.lon) < CoordTolerance

\* [...coords].reverse().
RECURSIVE arrayReverse(_)
arrayReverse(coords) ==
    IF coords = <<>> THEN <<>>
    ELSE Append(arrayReverse(Tail(coords)), Head(coords))

\* The single-way case: the coordinates, the first pushed again unless the
\* last is exactly equal to it.
closeSingleWay(coords) ==
    LET first == coords[1]
        last == coords[Len(coords)]
    IN  IF first.lat # last.lat \/ first.lon # last.lon
        THEN Append(coords, first)
        ELSE coords

\* A chain that repeats the shared endpoint: result.push(...coords).
appendWholeWay(result, coords) == result \o coords

\* result.push(...coords.slice(1)).
appendWay(result, coords) == result \o Tail(coords)

\* The while (progress && used.size < waySegments.length) loop: each round
\* takes the first unused way, in array order, one of whose ends matches
\* currentEnd, forwards if its start matches and reversed otherwise.
\* The answer records, next to result, used and currentEnd, the ids in the
\* order of used.add.
RECURSIVE extendChain(_, _, _, _, _)
extendChain(segments, result, used, currentEnd, order) ==
    LET matching ==
            {k \in DOMAIN segments :
                /\ segments[k].id \notin used
                /\ \/ coordsMatch(currentEnd, segments[k].startNode)
                   \/ coordsMatch(currentEnd, segments[k].endNode)}
    IN  IF Cardinality(used) >= Len(segments) \/ matching = {}
        THEN [result |-> result, used |-> used, currentEnd |-> currentEnd,
              order |-> order]
        ELSE LET k == CHOOSE m \in matching : \A o \in matching : m <= o
                 way == segments[k]
             IN  IF coordsMatch(currentEnd, way.startNode)
                 THEN extendChain(segments, appendWay(result, way.coords),
                                  used \cup {way.id}, way.endNode,
                                  Append(order, way.id))
                 ELSE extendChain(segments,
                                  appendWay(result, arrayReverse(way.coords)),
                                  used \cup {way.id}, way.startNode,
                                  Append(order, way.id))

\* A chain whose first way is not marked as used.
chainFromUnmarkedStart(segments, startIdx) ==
    extendChain(segments, segments[startIdx].coords, {},
                segments[startIdx].endNode, <<>>)

\* The chain grown from the way at startIdx: result = [...coords],
\* used = new Set([id]), currentEnd = the last point.
chainFrom(segments, startIdx) ==
    extendChain(segments, segments[startIdx].coords, {segments[startIdx].id},
                segments[startIdx].endNode, <<>>)

\* while (result.length > 1 && coordsMatch(last, last but one)) result.pop().
RECURSIVE popTrailingDuplicates(_)
popTrailingDuplicates(result) ==
    IF Len(result) > 1 /\ coordsMatch(result[Len(result)], result[Len(result) - 1])
    THEN popTrailingDuplicates(SubSeq(result, 1, Len(result) - 1))
    ELSE result

\* A complete chain that is closed by pushing its first point, always.
closeCompleteChainByPush(chain) == Append(chain.result, chain.result[1])

\* A chain that used every way: returned as it is when its end matches its
\* first point, otherwise trimmed and closed with a copy of the first point.
closeCompleteChain(chain) ==
    IF coordsMatch(chain.currentEnd, chain.result[1])
    THEN chain.result
    ELSE LET trimmed == popTrailingDuplicates(chain.result)
         IN  IF ~coordsMatch(trimmed[Len(trimmed)], trimmed[1])
             THEN Append(trimmed, chain.result[1])
             ELSE trimmed

\* for (i ...) if (i === 0 || !coordsMatch(bestChain[i], bestChain[i-1])).
removeConsecutiveDuplicates(bestChain) ==
    LET kept == {i \in DOMAIN bestChain :
                    i = 1 \/ ~coordsMatch(bestChain[i], bestChain[i - 1])}
        RECURSIVE collect(_)
        collect(i) ==
            IF i > Len(bestChain) THEN <<>>
            ELSE IF i \in kept THEN <<bestChain[i]>> \o collect(i + 1)
            ELSE collect(i + 1)
    IN  collect(1)

\* A best chain that is closed and returned whatever its length.
bestEffortRingUnchecked(bestChain) ==
    IF bestChain = nullRing THEN nullRing
    ELSE Append(bestChain, bestChain[1])

\* The end of chainWays when no start used every way: the best chain,
\* cleaned and closed, or null.
bestEffortRing(bestChain) ==
    IF bestChain # nullRing /\ Len(bestChain) >= 3
    THEN LET cleaned == removeConsecutiveDuplicates(bestChain)
             closed ==
                 IF Len(cleaned) > 0 /\ ~coordsMatch(cleaned[1], cleaned[Len(cleaned)])
                 THEN Append(cleaned, cleaned[1])
                 ELSE cleaned
         IN  IF Len(closed) >= 3 THEN closed ELSE nullRing
    ELSE nullRing

\* A best chain that a later start replaces on a tie.
replacesBestOnTie(usedSize, bestUsed) == usedSize >= bestUsed

\* if (used.size > bestUsed).
replacesBest(usedSize, bestUsed) == usedSize > bestUsed

\* The for (startIdx ...) loop.  The answer records, next to the ring
\* returned, the chain it was made from and the number of ways in it, which
\* chainWays keeps in its locals (result or bestChain, used.size or bestUsed).
RECURSIVE tryEachStart(_, _, _, _)
tryEachStart(segments, startIdx, bestChain, bestUsed) ==
    IF startIdx > Len(segments)
    THEN [ring |-> bestEffortRing(bestChain), chain |-> bestChain, used |-> bestUsed]
    ELSE LET chain == chainFrom(segments, startIdx)
         IN  IF Cardinality(chain.used) = Len(segments)
             THEN [ring |-> closeCompleteChain(chain), chain |-> chain.result,
                   used |-> Cardinality(chain.used)]
             ELSE IF replacesBest(Cardinality(chain.used), bestUsed)
             THEN tryEachStart(segments, startIdx + 1, chain.result,
                               Cardinality(chain.used))
             ELSE tryEachStart(segments, startIdx + 1, bestChain, bestUsed)

\* chainWays with its locals.
chainWaysRun(segments) ==
    IF Len(segments) = 0
    THEN [ring |-> nullRing, chain |-> nullRing, used |-> 0]
    ELSE IF Len(segments) = 1
    THEN [ring |-> closeSingleWay(segments[1].coords),
          chain |-> segments[1].coords, used |-> 1]
    ELSE tryEachStart(segments, 1, nullRing, 0)

\* chainWays(waySegments): the array returned, or null.
chainWays(segments) == chainWaysRun(segments).ring

\* A single way closed by a push to the argument's own array.
segmentsAfterPushInPlace(segments) ==
    IF Len(segments) = 1
    THEN <<[segments[1] EXCEPT !.coords = closeSingleWay(segments[1].coords)]>>
    ELSE segments

\* The argument once chainWays has returned: [...waySegments[0].coords],
\* [...waySegments[startIdx].coords] and [...way.coords] are copies, and
\* every push, pop and reverse works on a copy.
segmentsAfterChainWays(segments) == segments

\* A caller is about to call chainWays.
InitChain ==
    /\ PipelineIdle
    /\ KernelIdle
    /\ LoadIdle
    /\ DataIdle
    /\ FetchIdle
    /\ waySegments \in WaySegmentLists \cup RingArrangements
    /\ chainStep = "called"
    /\ chainOutcome = nullRing

\* chainWays(waySegments) runs and returns.
ChainWays ==
    /\ chainStep = "called"
    /\ chainOutcome' = chainWays(waySegments)
    /\ waySegments' = segmentsAfterChainWays(waySegments)
    /\ chainStep' = "returned"
    /\ UNCHANGED <<pipelineVars, kernelVars, loadVars, dataVars, fetchVars>>

NextChain == ChainWays

SpecChain == InitChain /\ [][NextChain]_vars

(***************************************************************************)
(* Geometry kernel: calculateBounds, calculateArea, isPointInPolygon.      *)
(*                                                                         *)
(* Coordinates are in units of 1e-5 degree, areas in square metres         *)
(* (0.01 km2 = 10000).  The equator and the prime meridian (a coordinate   *)
(* equal to 0) are among the positions.                                    *)
(***************************************************************************)
\* The geometry kernel is called with at most MaxPoints points.
MaxPoints == 4

\* const latKmPerDegree = 111.
AreaLatKmPerDegree == 111

\* const lonKmPerDegree = 111 * Math.cos(PORTLAND_BBOX.north * Math.PI / 180),
\* 77.6, to the kilometre.
AreaLonKmPerDegree == 78

\* return Math.max(areaSqKm, 0.01), and return 0.01 for fewer than 3 points.
MinimumArea == 10000

\* The points of a geometry and the points queried.
GeometryPoints == [lat : {0, 200, 400}, lon : {0, 200}]

QueryPoints == [lat : {100, 200, 300}, lon : {-100, 100}]

Geometries == UNION {[1..n -> GeometryPoints] : n \in 0..MaxPoints}

\* if (point.lat && point.lon): a coordinate equal to 0 is falsy.
isTruthyPoint(p) == p.lat # 0 /\ p.lon # 0

MathMin(a, b) == IF a < b THEN a ELSE b

MathMax(a, b) == IF a > b THEN a ELSE b

\* geometry.forEach(point => {...}) of calculateBounds.
RECURSIVE boundsForEach(_, _)
boundsForEach(points, bounds) ==
    IF points = <<>> THEN bounds
    ELSE LET p == Head(points)
         IN  boundsForEach(
                 Tail(points),
                 IF isTruthyPoint(p)
                 THEN [minLat |-> MathMin(bounds.minLat, p.lat),
                       maxLat |-> MathMax(bounds.maxLat, p.lat),
                       minLon |-> MathMin(bounds.minLon, p.lon),
                       maxLon |-> MathMax(bounds.maxLon, p.lon)]
                 ELSE bounds)

\* calculateBounds without its first line.
calculateBoundsOfAny(points) ==
    boundsForEach(points,
                  [minLat |-> Infinity, maxLat |-> 0 - Infinity,
                   minLon |-> Infinity, maxLon |-> 0 - Infinity])

\* calculateBounds(geometry).
calculateBounds(points) ==
    IF Len(points) = 0 THEN null
    ELSE boundsForEach(points,
                       [minLat |-> Infinity, maxLat |-> 0 - Infinity,
                        minLon |-> Infinity, maxLon |-> 0 - Infinity])

\* The loop of calculateArea: area += xi * yj; area -= xj * yi, with
\* j = (i + 1) % n.
shoelaceSum(points) ==
    LET n == Len(points)
        RECURSIVE sumFrom(_)
        sumFrom(i) ==
            IF i > n THEN 0
            ELSE LET j == (i % n) + 1
                 IN  points[i].lon * points[j].lat - points[j].lon * points[i].lat
                         + sumFrom(i + 1)
    IN  sumFrom(1)

\* The shoelace sum taken with its sign.
areaWithSign(area) == area

\* Math.abs(area / 2), before the halving: calculateArea below halves after
\* the conversion to square metres, on whole numbers.
areaMagnitude(area) == Abs(area)

\* calculateArea(geometry), in square metres.
calculateArea(points) ==
    IF Len(points) < 3 THEN MinimumArea
    ELSE MathMax(
             (areaMagnitude(shoelaceSum(points)) * AreaLatKmPerDegree * AreaLonKmPerDegree)
                 \div 20000,
             MinimumArea)

\* A loop that pairs the first point with itself instead of the last.
previousIndexWithoutWrap(i, n) == IF i = 1 THEN 1 ELSE i - 1

\* for (let i = 0, j = geometry.length - 1; i < geometry.length; j = i++).
previousIndex(i, n) == IF i = 1 THEN n ELSE i - 1

\* lon < (xj - xi) * (lat - yi) / (yj - yi) + xi, for yj # yi, compared
\* without dividing.
isLeftOfEdge(lat, lon, xi, yi, xj, yj) ==
    IF yj - yi > 0
    THEN (lon - xi) * (yj - yi) < (xj - xi) * (lat - yi)
    ELSE (lon - xi) * (yj - yi) > (xj - xi) * (lat - yi)

\* isPointInPolygon(lat, lon, geometry).
isPointInPolygon(lat, lon, points) ==
    LET n == Len(points)
        intersect(i) ==
            LET j == previousIndex(i, n)
                xi == points[i].lon
                yi == points[i].lat
                xj == points[j].lon
                yj == points[j].lat
            IN  /\ (yi > lat) # (yj > lat)
                /\ isLeftOfEdge(lat, lon, xi, yi, xj, yj)
    IN  /\ n # 0
        /\ Cardinality({i \in 1..n : intersect(i)}) % 2 = 1

\* A caller is about to call one of the three functions.
InitKernel ==
    /\ PipelineIdle
    /\ ChainIdle
    /\ LoadIdle
    /\ DataIdle
    /\ FetchIdle
    /\ geometry \in Geometries
    /\ point = [lat |-> 0, lon |-> 0]
    /\ kernelStep = "called"
    /\ kernelOutcome = [value |-> 0, threw |-> ""]

\* calculateBounds(geometry) runs; it has no throw statement.
CalculateBounds ==
    /\ kernelStep = "called"
    /\ kernelOutcome' = [value |-> calculateBounds(geometry), threw |-> ""]
    /\ kernelStep' = "calculateBounds"
    /\ UNCHANGED <<geometry, point, pipelineVars, chainVars, loadVars,
                   dataVars, fetchVars>>

\* calculateArea(geometry) runs.
CalculateArea ==
    /\ kernelStep = "called"
    /\ kernelOutcome' = [value |-> calculateArea(geometry), threw |-> ""]
    /\ kernelStep' = "calculateArea"
    /\ UNCHANGED <<geometry, point, pipelineVars, chainVars, loadVars,
                   dataVars, fetchVars>>

\* isPointInPolygon(query.lat, query.lon, geometry) runs.
IsPointInPolygon(query) ==
    /\ kernelStep = "called"
    /\ point' = query
    /\ kernelOutcome' =
         [value |-> isPointInPolygon(query.lat, query.lon, geometry), threw |-> ""]
    /\ kernelStep' = "isPointInPolygon"
    /\ UNCHANGED <<geometry, pipelineVars, chainVars, loadVars,
                   dataVars, fetchVars>>

NextKernel ==
    \/ CalculateBounds
    \/ CalculateArea
    \/ \E query \in QueryPoints : IsPointInPolygon(query)

SpecKernel == InitKernel /\ [][NextKernel]_vars

(***************************************************************************)
(* Neighborhood loader: loadNeighborhoods and its sources.                 *)
(***************************************************************************)
\* The area search answers with at most MaxRelations relations.
MaxRelations == 2

\* if (dist > 0.0001) in buildGeometryFromRelationData.
CloseDistance == 10

\* .filter(n => n !== null && n.area > 0.001), in square metres.
AreaThreshold == 1000

\* const gridSize = 4 in createGridNeighborhoods.
NeighborhoodGridSize == 4

\* The outer way members of the relations of an answer, as way refs; ref 0
\* is a way that the answer does not contain.  In turn: the four sides of
\* the square, three of them with the fourth missing, one way of two nodes,
\* two ways that do not touch, and a relation without members.
RelationMembers ==
    <<  <<1, 2, 3, 4>>,
        <<1, 2, 3, 0>>,
        <<1>>,
        <<1, 3>>,
        <<>>  >>

\* The relations of an answer: rel.id is the position in the answer.
RelationLists ==
    UNION {[1..n -> {RelationMembers[k] : k \in DOMAIN RelationMembers}] :
              n \in 0..MaxRelations}

\* What the area search can answer: a rejected fetch or an HTTP error
\* status (ok false), or a list of relations.
AreaSearchAnswers ==
    {[ok |-> FALSE, relations |-> <<>>]}
        \cup {[ok |-> TRUE, relations |-> rels] : rels \in RelationLists}

\* The end of buildGeometryFromRelationData: null for a chain of fewer than
\* 3 points, otherwise the chain, closed if its ends are further apart than
\* CloseDistance.
ensureClosed(chainedCoords) ==
    IF chainedCoords = nullRing \/ Len(chainedCoords) < 3
    THEN nullRing
    ELSE IF (chainedCoords[1].lat - chainedCoords[Len(chainedCoords)].lat)
                * (chainedCoords[1].lat - chainedCoords[Len(chainedCoords)].lat)
            + (chainedCoords[1].lon - chainedCoords[Len(chainedCoords)].lon)
                * (chainedCoords[1].lon - chainedCoords[Len(chainedCoords)].lon)
            > CloseDistance * CloseDistance
    THEN Append(chainedCoords, chainedCoords[1])
    ELSE chainedCoords

\* buildGeometryFromRelationData(relation, waysMap, nodesMap), for the outer
\* way refs of the relation.
buildGeometryFromRelationData(members) ==
    IF Len(members) = 0 \/ Len(outerWayMembersOf(members)) = 0
    THEN nullRing
    ELSE ensureClosed(chainWays(outerWayMembersOf(members)))

\* The object made for a relation (its name is left out).
neighborhoodOf(id, ring) ==
    [id |-> id,
     geometry |-> ring,
     bounds |-> calculateBounds(ring),
     area |-> calculateArea(ring),
     restaurants |-> <<>>]

\* n.area > 0.001.
keepsArea(area) == area > AreaThreshold

\* A map that gives up at the first relation without a ring.
neighborhoodsUntilFailure(relations) ==
    LET RECURSIVE mapUntil(_)
        mapUntil(k) ==
            IF k > Len(relations) THEN <<>>
            ELSE IF buildGeometryFromRelationData(relations[k]) = nullRing
            THEN <<>>
            ELSE <<neighborhoodOf(k, buildGeometryFromRelationData(relations[k]))>>
                 \o mapUntil(k + 1)
    IN  mapUntil(1)

\* relations.map(rel => ...).filter(n => n !== null && n.area > 0.001).
neighborhoodsOf(relations) ==
    LET RECURSIVE mapFrom(_)
        mapFrom(k) ==
            IF k > Len(relations) THEN <<>>
            ELSE LET ring == buildGeometryFromRelationData(relations[k])
                 IN  IF ring = nullRing \/ Len(ring) < 3
                     THEN mapFrom(k + 1)
                     ELSE IF keepsArea(calculateArea(ring))
                     THEN <<neighborhoodOf(k, ring)>> \o mapFrom(k + 1)
                     ELSE mapFrom(k + 1)
    IN  mapFrom(1)

\* What a later source can answer: nothing, or one area.  Of the content of
\* these answers no more is modelled.
SourceAnswers ==
    {<<>>,
     <<neighborhoodOf(1, <<CornerA, CornerB, CornerC, CornerD, CornerA>>)>>}

\* createGridNeighborhoods(): 4 x 4 rectangles over PORTLAND_BBOX, with
\* negative ids.  Their geometry and area are left out.
createGridNeighborhoods ==
    LET latStep == (PORTLAND_BBOX_north - PORTLAND_BBOX_south) \div NeighborhoodGridSize
        lonStep == (PORTLAND_BBOX_east - PORTLAND_BBOX_west) \div NeighborhoodGridSize
    IN  [n \in 1..(NeighborhoodGridSize * NeighborhoodGridSize) |->
            LET i == (n - 1) \div NeighborhoodGridSize
                j == (n - 1) % NeighborhoodGridSize
            IN  [id |-> 0 - (i * NeighborhoodGridSize + j + 1),
                 bounds |-> [minLat |-> PORTLAND_BBOX_south + i * latStep,
                             maxLat |-> PORTLAND_BBOX_south + i * latStep + latStep,
                             minLon |-> PORTLAND_BBOX_west + j * lonStep,
                             maxLon |-> PORTLAND_BBOX_west + j * lonStep + lonStep],
                 restaurants |-> <<>>]]

\* loadNeighborhoods() is called; the answer of the area search is fixed.
InitLoad ==
    /\ PipelineIdle
    /\ ChainIdle
    /\ KernelIdle
    /\ DataIdle
    /\ FetchIdle
    /\ overpassResponse \in AreaSearchAnswers
    /\ loadStep = "areaSearch"
    /\ sourcesAttempted = <<>>
    /\ neighborhoods = <<>>

\* A source has answered inside the try block: return its answer if it has
\* areas, otherwise go on to the next await.
answerInTry(source, answer, nextStep) ==
    /\ sourcesAttempted' = Append(sourcesAttempted, source)
    /\ neighborhoods' = answer
    /\ loadStep' = IF Len(answer) > 0 THEN "returned" ELSE nextStep

\* return createGridNeighborhoods(), the sources tried so far being tried.
returnGrid(tried) ==
    /\ sourcesAttempted' = Append(tried, "grid")
    /\ neighborhoods' = createGridNeighborhoods
    /\ loadStep' = "returned"

\* The fetch of the area search and the processing of its answer, up to the
\* next await: a failed fetch throws into the catch block.
AreaSearch ==
    /\ loadStep = "areaSearch"
    /\ IF overpassResponse.ok
       THEN answerInTry("area", neighborhoodsOf(overpassResponse.relations), "bbox")
       ELSE /\ sourcesAttempted' = Append(sourcesAttempted, "area")
            /\ neighborhoods' = <<>>
            /\ loadStep' = "catch"
    /\ UNCHANGED <<overpassResponse, pipelineVars, chainVars, kernelVars,
                   dataVars, fetchVars>>

\* neighborhoods = await loadNeighborhoodsByBBox(), which catches its own
\* errors and then answers [].
LoadNeighborhoodsByBBox ==
    /\ loadStep = "bbox"
    /\ \E answer \in SourceAnswers : answerInTry("bbox", answer, "geom")
    /\ UNCHANGED <<overpassResponse, pipelineVars, chainVars, kernelVars,
                   dataVars, fetchVars>>

\* neighborhoods = await loadNeighborhoodsWithGeom(), which catches nothing:
\* a rejected fetch throws into the catch block.
LoadNeighborhoodsWithGeom ==
    /\ loadStep = "geom"
    /\ \E answer \in SourceAnswers, throws \in BOOLEAN :
          IF throws
          THEN /\ sourcesAttempted' = Append(sourcesAttempted, "geom")
               /\ loadStep' = "catch"
               /\ UNCHANGED neighborhoods
          ELSE answerInTry("geom", answer, "portland")
    /\ UNCHANGED <<overpassResponse, pipelineVars, chainVars, kernelVars,
                   dataVars, fetchVars>>

\* neighborhoods = await loadNeighborhoodsFromPortlandData().
LoadNeighborhoodsFromPortlandData ==
    /\ loadStep = "portland"
    /\ \E answer \in SourceAnswers : answerInTry("portland", answer, "geojson")
    /\ UNCHANGED <<overpassResponse, pipelineVars, chainVars, kernelVars,
                   dataVars, fetchVars>>

\* neighborhoods = await loadNeighborhoodsFromGeoJSON('neighborhoods.geojson')
\* and the end of the try block.
LoadNeighborhoodsFromGeoJSON ==
    /\ loadStep = "geojson"
    /\ \E answer \in SourceAnswers :
          IF Len(answer) > 0
          THEN answerInTry("geojson", answer, "returned")
          ELSE returnGrid(Append(sourcesAttempted, "geojson"))
    /\ UNCHANGED <<overpassResponse, pipelineVars, chainVars, kernelVars,
                   dataVars, fetchVars>>

\* The catch block: await loadNeighborhoodsWithGeom() in its own try.
CatchLoadNeighborhoodsWithGeom ==
    /\ loadStep = "catch"
    /\ \E answer \in SourceAnswers, throws \in BOOLEAN :
          IF ~throws /\ Len(answer) > 0
          THEN answerInTry("geom", answer, "returned")
          ELSE /\ sourcesAttempted' = Append(sourcesAttempted, "geom")
               /\ loadStep' = "catchPortland"
               /\ UNCHANGED neighborhoods
    /\ UNCHANGED <<overpassResponse, pipelineVars, chainVars, kernelVars,
                   dataVars, fetchVars>>

\* The catch block: await loadNeighborhoodsFromPortlandData(), then the grid.
CatchLoadNeighborhoodsFromPortlandData ==
    /\ loadStep = "catchPortland"
    /\ \E answer \in SourceAnswers :
          IF Len(answer) > 0
          THEN answerInTry("portland", answer, "returned")
          ELSE returnGrid(Append(sourcesAttempted, "portland"))
    /\ UNCHANGED <<overpassResponse, pipelineVars, chainVars, kernelVars,
                   dataVars, fetchVars>>

NextLoad ==
    \/ AreaSearch
    \/ LoadNeighborhoodsByBBox
    \/ LoadNeighborhoodsWithGeom
    \/ LoadNeighborhoodsFromPortlandData
    \/ LoadNeighborhoodsFromGeoJSON
    \/ CatchLoadNeighborhoodsWithGeom
    \/ CatchLoadNeighborhoodsFromPortlandData

SpecLoad == InitLoad /\ [][NextLoad]_vars

(***************************************************************************)
(* Business data: loadData with loadAllBusinesses in the page, and the     *)
(* refresh script fetch-data.js that writes businesses-data.json.          *)
(*                                                                         *)
(* An Overpass answer is a network error, a status other than 200, a body  *)
(* that is not JSON, or a list of elements.  The elements are given as     *)
(* they leave filterFn and the coordinate test: distinct in position and   *)
(* without a usable category until the caller assigns one.                 *)
(***************************************************************************)

\* Object.entries(getCategoryDefinitions()): the categories in key order.
CategoryOrder == <<"vegan-restaurants", "indie-coffee">>

\* What fetch('businesses-data.json') and response.json() can give.
CacheResponses ==
    {[kind |-> k, businesses |-> <<>>] :
        k \in {"rejected", "notOk", "unparsable", "noBusinesses"}}
    \cup {[kind |-> "parsed", businesses |-> b] : b \in BusinessLists}

\* What the Overpass interpreter can answer to one category query.
OverpassAnswers ==
    {[kind |-> k, elements |-> <<>>] :
        k \in {"networkError", "httpError", "parseError"}}
    \cup {[kind |-> "ok", elements |-> e] : e \in BusinessLists}

\* A request that has not settled.
pendingAnswer == [kind |-> "pending", elements |-> <<>>]

\* isExcludedChain: the records carry no name, and (business.name || '')
\* contains no chain name.
isExcludedChain(business) == FALSE

\* businesses.map(b => ({...b, category: categoryId})) in the page,
\* businesses.forEach(b => b.category = categoryId) in the script.
RECURSIVE withCategory(_, _)
withCategory(businesses, categoryId) ==
    IF businesses = <<>> THEN <<>>
    ELSE <<[Head(businesses) EXCEPT !.category = categoryId]>>
         \o withCategory(Tail(businesses), categoryId)

\* loadBusinessesByCategory of the page: fetch, response.ok, response.json(),
\* the element loop, all inside try; catch returns [].
loadBusinessesByCategory(answer) ==
    [threw |-> FALSE,
     businesses |-> IF answer.kind = "ok" THEN answer.elements ELSE <<>>]

\* One async mapper of loadAllBusinesses: try { await
\* loadBusinessesByCategory; map } catch { return [] }.
loadPromise(categoryId, answer) ==
    IF loadBusinessesByCategory(answer).threw THEN <<>>
    ELSE withCategory(loadBusinessesByCategory(answer).businesses, categoryId)

\* results.flat() of Promise.all: the categories' arrays in key order.
RECURSIVE flatResults(_, _)
flatResults(answers, k) ==
    IF k > Len(CategoryOrder) THEN <<>>
    ELSE loadPromise(CategoryOrder[k], answers[CategoryOrder[k]])
         \o flatResults(answers, k + 1)

\* loadAllBusinesses once every promise has settled.
loadAllBusinesses(answers) ==
    SelectSeq(flatResults(answers, 1), LAMBDA b : ~isExcludedChain(b))

\* data.businesses || [] of a response that is ok and parses.
cachedBusinesses(response) ==
    IF response.kind = "parsed" THEN response.businesses ELSE <<>>

\* A test of response.ok and the parse alone.
cacheIsOk(response) ==
    response.kind \in {"parsed", "noBusinesses"}

\* response.ok, response.json() parses, allBusinesses.length > 0.
cacheHasBusinesses(response) ==
    /\ response.kind \in {"parsed", "noBusinesses"}
    /\ Len(cachedBusinesses(response)) > 0

\* The page calls loadData.
InitData ==
    /\ PipelineIdle
    /\ ChainIdle
    /\ KernelIdle
    /\ LoadIdle
    /\ FetchIdle
    /\ cacheResponse \in CacheResponses
    /\ dataStep = "start"
    /\ overpassRequests = {}
    /\ overpassAnswers = EmptyObject

\* loadData up to await fetch('businesses-data.json').
LoadDataStart ==
    /\ dataStep = "start"
    /\ activeCategoryFilters' = activeCategoryFilters \cup Categories
    /\ dataStep' = "cacheFetch"
    /\ UNCHANGED <<region, phase, allBusinesses, gridCells, categoryCheckboxes,
                   selectAllCheckbox, businessMarkers, passes, pipelineRuns,
                   lastRanking>>
    /\ UNCHANGED <<cacheResponse, overpassRequests, overpassAnswers>>
    /\ UNCHANGED <<chainVars, kernelVars, loadVars, fetchVars>>

\* The cache fetch settles: with businesses loadData generates the grid and
\* returns; otherwise it calls loadAllBusinesses, whose mappers each issue
\* their fetch before the first await.
CacheFetchSettles ==
    /\ dataStep = "cacheFetch"
    /\ IF cacheHasBusinesses(cacheResponse)
       THEN /\ allBusinesses' = cachedBusinesses(cacheResponse)
            /\ gridCells' = generateGridCells(region)
            /\ dataStep' = "completed"
            /\ UNCHANGED <<overpassRequests, overpassAnswers>>
       ELSE /\ allBusinesses' =
                  IF cacheResponse.kind \in {"parsed", "noBusinesses"}
                  THEN cachedBusinesses(cacheResponse)
                  ELSE allBusinesses
            /\ overpassRequests' = overpassRequests \cup Categories
            /\ overpassAnswers' = [c \in Categories |-> pendingAnswer]
            /\ dataStep' = "overpass"
            /\ UNCHANGED gridCells
    /\ UNCHANGED <<region, phase, activeCategoryFilters, categoryCheckboxes,
                   selectAllCheckbox, businessMarkers, passes, pipelineRuns,
                   lastRanking>>
    /\ UNCHANGED cacheResponse
    /\ UNCHANGED <<chainVars, kernelVars, loadVars, fetchVars>>

\* One category's Overpass request settles, in any order.
OverpassSettles(categoryId) ==
    /\ dataStep = "overpass"
    /\ overpassAnswers[categoryId] = pendingAnswer
    /\ \E answer \in OverpassAnswers :
           overpassAnswers' = [overpassAnswers EXCEPT ![categoryId] = answer]
    /\ UNCHANGED <<cacheResponse, dataStep, overpassRequests>>
    /\ UNCHANGED <<pipelineVars, chainVars, kernelVars, loadVars, fetchVars>>

\* Promise.all resolves; loadData stores the businesses and the grid.
LoadAllBusinessesResolves ==
    /\ dataStep = "overpass"
    /\ \A c \in Categories : overpassAnswers[c] # pendingAnswer
    /\ allBusinesses' = loadAllBusinesses(overpassAnswers)
    /\ gridCells' = generateGridCells(region)
    /\ dataStep' = "completed"
    /\ UNCHANGED <<region, phase, activeCategoryFilters, categoryCheckboxes,
                   selectAllCheckbox, businessMarkers, passes, pipelineRuns,
                   lastRanking>>
    /\ UNCHANGED <<cacheResponse, overpassRequests, overpassAnswers>>
    /\ UNCHANGED <<chainVars, kernelVars, loadVars, fetchVars>>

\* makeRequest of the script: resolves with the parsed body of a 200 answer;
\* rejects on a request error, another status, or a body JSON.parse refuses.
makeRequest(answer) ==
    [rejected |-> answer.kind # "ok", data |-> answer.elements]

\* A loadBusinessesByCategory whose rejection reaches main.
scriptLoadBusinessesUncaught(answer) ==
    [threw |-> makeRequest(answer).rejected,
     businesses |-> makeRequest(answer).data]

\* loadBusinessesByCategory of the script: await makeRequest and the element
\* loop inside try; catch returns [].
scriptLoadBusinessesByCategory(answer) ==
    [threw |-> FALSE,
     businesses |-> IF makeRequest(answer).rejected THEN <<>>
                    ELSE makeRequest(answer).data]

\* The loop goes on without the delay.
afterCategoryLoadedNoDelay(index) ==
    [step |-> IF index < Len(CategoryOrder) THEN "loop" ELSE "write",
     index |-> index + 1]

\* await new Promise(resolve => setTimeout(resolve, 1000)) at the end of the
\* loop body: main waits, on the same category.
afterCategoryLoaded(index) ==
    [step |-> "awaitDelay", index |-> index]

\* An entry of the run's history.
logEntry(event, categoryId, answer) ==
    [event |-> event, category |-> categoryId, answer |-> answer]

\* node fetch-data.js starts main.
InitFetch ==
    /\ PipelineIdle
    /\ ChainIdle
    /\ KernelIdle
    /\ LoadIdle
    /\ DataIdle
    /\ fetchStep = "loop"
    /\ fetchIndex = 1
    /\ requestsInFlight = {}
    /\ scriptBusinesses = <<>>
    /\ fetchLog = <<>>
    /\ outputFile = <<>>

\* The for loop takes the next category and awaits loadBusinessesByCategory,
\* which has called makeRequest.
IssueRequest ==
    /\ fetchStep = "loop"
    /\ fetchIndex <= Len(CategoryOrder)
    /\ requestsInFlight' = requestsInFlight \cup {CategoryOrder[fetchIndex]}
    /\ fetchLog' = Append(fetchLog,
                          logEntry("request", CategoryOrder[fetchIndex],
                                   pendingAnswer))
    /\ fetchStep' = "awaitRequest"
    /\ UNCHANGED <<fetchIndex, scriptBusinesses, outputFile>>
    /\ UNCHANGED <<pipelineVars, chainVars, kernelVars, loadVars, dataVars>>

\* The request settles: main tags and collects the businesses and starts the
\* delay; a rejection of loadBusinessesByCategory would end main in
\* process.exit(1).
RequestSettles ==
    /\ fetchStep = "awaitRequest"
    /\ \E answer \in OverpassAnswers :
         /\ requestsInFlight' = requestsInFlight \ {CategoryOrder[fetchIndex]}
         /\ fetchLog' = Append(fetchLog,
                               logEntry("answer", CategoryOrder[fetchIndex],
                                        answer))
         /\ IF scriptLoadBusinessesByCategory(answer).threw
            THEN /\ fetchStep' = "exited"
                 /\ UNCHANGED <<fetchIndex, scriptBusinesses>>
            ELSE /\ scriptBusinesses' =
                       scriptBusinesses
                       \o withCategory(
                            scriptLoadBusinessesByCategory(answer).businesses,
                            CategoryOrder[fetchIndex])
                 /\ fetchStep' = afterCategoryLoaded(fetchIndex).step
                 /\ fetchIndex' = afterCategoryLoaded(fetchIndex).index
    /\ UNCHANGED outputFile
    /\ UNCHANGED <<pipelineVars, chainVars, kernelVars, loadVars, dataVars>>

\* The timer fires: the loop goes to the next category, or ends.
DelayElapses ==
    /\ fetchStep = "awaitDelay"
    /\ fetchLog' = Append(fetchLog,
                          logEntry("delay", CategoryOrder[fetchIndex],
                                   pendingAnswer))
    /\ fetchIndex' = fetchIndex + 1
    /\ fetchStep' = IF fetchIndex < Len(CategoryOrder) THEN "loop" ELSE "write"
    /\ UNCHANGED <<requestsInFlight, scriptBusinesses, outputFile>>
    /\ UNCHANGED <<pipelineVars, chainVars, kernelVars, loadVars, dataVars>>

\* After the loop: the chain filter, then fs.writeFileSync.
WriteOutputFile ==
    /\ fetchStep = "write"
    /\ outputFile' = SelectSeq(scriptBusinesses, LAMBDA b : ~isExcludedChain(b))
    /\ fetchStep' = "written"
    /\ UNCHANGED <<fetchIndex, requestsInFlight, scriptBusinesses, fetchLog>>
    /\ UNCHANGED <<pipelineVars, chainVars, kernelVars, loadVars, dataVars>>

\* Either program runs.
InitBusinessData == InitData \/ InitFetch

NextBusinessData ==
    \/ LoadDataStart
    \/ CacheFetchSettles
    \/ \E categoryId \in Categories : OverpassSettles(categoryId)
    \/ LoadAllBusinessesResolves
    \/ IssueRequest
    \/ RequestSettles
    \/ DelayElapses
    \/ WriteOutputFile

SpecData == InitBusinessData /\ [][NextBusinessData]_vars
(***************************************************************************)
(* Helpers of the properties.                                              *)
(***************************************************************************)
RangeOf(seq) == {seq[k] : k \in DOMAIN seq}

\* The position of the cell with the given id in an array of cells.
IndexOfId(cells, id) == CHOOSE k \in DOMAIN cells : cells[k].id = id

\* The distance from the centre of a cell to a business.
DistanceToCenter(cell, business) ==
    calculateDistance(cell.centerLat, cell.centerLon, business.lat, business.lon)

AFilterChanges ==
    /\ phase = "ready"
    /\ \/ categoryCheckboxes' # categoryCheckboxes
       \/ selectAllCheckbox' # selectAllCheckbox

AScoringPass == passes' = passes + 1

(***************************************************************************)
(* C1.  A change of the category filter (a category checkbox or the        *)
(* select-all checkbox) leaves gridCells as it is - every cell's score,    *)
(* nearest business, contained businesses, and the order of the cells -    *)
(* and leaves allBusinesses as it is: only the marker layer is rebuilt.    *)
(***************************************************************************)
C1_FilterChangeKeepsScores ==
    [][AFilterChanges => gridCells' = gridCells /\ allBusinesses' = allBusinesses]_vars

\* Scored cells, a category filtered out, and a cell whose nearest business
\* belongs to the category that is filtered out.
C1_Witness ==
    /\ phase = "ready"
    /\ passes >= 1
    /\ activeCategoryFilters # Categories
    /\ Len(businessMarkers) < Len(allBusinesses)
    /\ \E k \in DOMAIN gridCells :
          /\ gridCells[k].nearestBusiness # null
          /\ gridCells[k].nearestBusiness.category \notin activeCategoryFilters
          /\ gridCells[k].businessCount > 0

(***************************************************************************)
(* C2.  Every cell's proximityScore lies between 0 and 100 (100000         *)
(* thousandths), whatever the point set is.                                *)
(***************************************************************************)
C2_ScoreWithinRange ==
    \A k \in DOMAIN gridCells :
        /\ 0 <= gridCells[k].proximityScore
        /\ gridCells[k].proximityScore <= ScoreMax

\* A scored grid with a cell at the maximum and a cell more than one decay
\* length away from its nearest business.
C2_Witness ==
    /\ passes >= 1
    /\ \E k \in DOMAIN gridCells : gridCells[k].proximityScore = ScoreMax
    /\ \E k \in DOMAIN gridCells :
          /\ gridCells[k].minDistance > DecayLengthM
          /\ gridCells[k].proximityScore > 0
          /\ gridCells[k].proximityScore < ScoreMax

(***************************************************************************)
(* C3.  With an empty point set, every scored cell has proximityScore      *)
(* exactly 0, nearestBusiness null and no contained businesses.            *)
(***************************************************************************)
C3_EmptyPointSetScoresZero ==
    (passes >= 1 /\ allBusinesses = <<>>) =>
        \A k \in DOMAIN gridCells :
            /\ gridCells[k].proximityScore = 0
            /\ gridCells[k].nearestBusiness = null
            /\ gridCells[k].businesses = <<>>
            /\ gridCells[k].businessCount = 0
            /\ gridCells[k].businessesByCategory = EmptyObject

\* The 2 x 2 grid scored against the empty point set.
C3_Witness ==
    /\ phase = "ready"
    /\ passes >= 1
    /\ allBusinesses = <<>>
    /\ Len(gridCells) = 4

(***************************************************************************)
(* C4.  A scoring pass leaves gridCells a permutation of the cells it      *)
(* held, in descending order of proximityScore, cells of equal score in    *)
(* the relative order they had before the pass.                            *)
(***************************************************************************)
IsPermutationById(new, old) ==
    /\ Len(new) = Len(old)
    /\ {new[k].id : k \in DOMAIN new} = {old[k].id : k \in DOMAIN old}
    /\ \A i, j \in DOMAIN new : i # j => new[i].id # new[j].id
    /\ \A k \in DOMAIN new :
          LET before == old[IndexOfId(old, new[k].id)]
          IN  /\ new[k].row = before.row
              /\ new[k].col = before.col
              /\ new[k].bounds = before.bounds

IsDescending(cells) ==
    \A i, j \in DOMAIN cells :
        i < j => cells[i].proximityScore >= cells[j].proximityScore

KeepsOrderOfTies(new, old) ==
    \A i, j \in DOMAIN new :
        (i < j /\ new[i].proximityScore = new[j].proximityScore)
            => IndexOfId(old, new[i].id) < IndexOfId(old, new[j].id)

C4_SortedStablePermutation ==
    [][AScoringPass =>
          /\ IsPermutationById(gridCells', gridCells)
          /\ IsDescending(gridCells')
          /\ KeepsOrderOfTies(gridCells', gridCells)]_vars

\* A scored grid in which the sort has moved a cell forward and two cells
\* of equal positive score stand in the order of their ids.
C4_Witness ==
    /\ passes = 1
    /\ \E i, j \in DOMAIN gridCells :
          i < j /\ gridCells[i].id > gridCells[j].id
    /\ \E i, j \in DOMAIN gridCells :
          /\ i < j
          /\ gridCells[i].proximityScore = gridCells[j].proximityScore
          /\ gridCells[i].proximityScore > 0
          /\ gridCells[i].id < gridCells[j].id

(***************************************************************************)
(* C5.  A pipeline run (calculateProximityScores on freshly generated      *)
(* cells) that follows an earlier run on the same point set and region     *)
(* yields the same score for every cell (row, col) and the same order of   *)
(* the cells as the earlier run, whatever happened in between.             *)
(***************************************************************************)
C5_PipelineRerunSameRanking ==
    [][(AScoringPass /\ passes = 0 /\ pipelineRuns >= 1)
          => rankingOf(gridCells') = lastRanking]_vars

\* The pipeline has run a second time, after the user had filtered a
\* category out, on a point set that has a business of that category.
C5_Witness ==
    /\ pipelineRuns >= 2
    /\ passes = 1
    /\ activeCategoryFilters # Categories
    /\ \E k \in DOMAIN allBusinesses :
          allBusinesses[k].category \notin activeCategoryFilters
    /\ \E k \in DOMAIN gridCells : gridCells[k].proximityScore > 0
(***************************************************************************)
(* C6.  A further scoring pass on the same cells with the same point set   *)
(* leaves every cell's contained businesses, businessCount and             *)
(* per-category buckets as they were after the pass before: nothing is     *)
(* carried over from the earlier pass.                                     *)
(***************************************************************************)
C6_SecondPassSameContainment ==
    [][(AScoringPass /\ passes >= 1) =>
          \A k \in DOMAIN gridCells' :
              LET after == gridCells'[k]
                  before == gridCells[IndexOfId(gridCells, after.id)]
              IN  /\ after.businesses = before.businesses
                  /\ after.businessCount = before.businessCount
                  /\ after.businessesByCategory = before.businessesByCategory]_vars

(***************************************************************************)
(* C7.  Freshly generated cells number ceil(latRange / latStep) times      *)
(* ceil(lonRange / lonStep), stand in row-major order (row outer, column   *)
(* inner), and have id = row * numCols + col: the ids are 0 .. count-1 in  *)
(* output order.                                                           *)
(***************************************************************************)
\* The least n with n * step >= range.
CeilingOf(range, step) ==
    CHOOSE n \in 0..range : n * step >= range /\ (n = 0 \/ (n - 1) * step < range)

C7_RowMajorIds ==
    (phase # "start" /\ passes = 0) =>
        LET numRows == CeilingOf(region.north - region.south, GRID_LAT_STEP)
            numCols == CeilingOf(region.east - region.west, GRID_LON_STEP)
        IN  /\ Len(gridCells) = numRows * numCols
            /\ \A k \in DOMAIN gridCells :
                  /\ gridCells[k].id = k - 1
                  /\ gridCells[k].row = (k - 1) \div numCols
                  /\ gridCells[k].col = (k - 1) % numCols
                  /\ gridCells[k].id = gridCells[k].row * numCols + gridCells[k].col
                  /\ gridCells[k].row \in 0..(numRows - 1)

\* A fresh grid with more rows than columns, whose last row is partial.
C7_Witness ==
    /\ phase = "loaded"
    /\ passes = 0
    /\ (region.north - region.south) % GRID_LAT_STEP # 0
    /\ Len(gridCells) >= 2
    /\ gridCells[Len(gridCells)].row > gridCells[Len(gridCells)].col

(***************************************************************************)
(* C8.  The cells tile the region.                                         *)
(***************************************************************************)
\* The south/north (west/east) edges of the region and of every cell.
LatEdges ==
    {region.south, region.north}
        \cup {gridCells[k].bounds.minLat : k \in DOMAIN gridCells}
        \cup {gridCells[k].bounds.maxLat : k \in DOMAIN gridCells}

LonEdges ==
    {region.west, region.east}
        \cup {gridCells[k].bounds.minLon : k \in DOMAIN gridCells}
        \cup {gridCells[k].bounds.maxLon : k \in DOMAIN gridCells}

\* Twice the midpoints of the intervals between neighbouring edges: one
\* probe inside every elementary rectangle the edges cut the plane into.
IsNextEdge(edges, lo, hi) ==
    lo < hi /\ \A m \in edges : ~(lo < m /\ m < hi)

ProbesBetween(edges) ==
    {pair[1] + pair[2] :
        pair \in {q \in edges \X edges : IsNextEdge(edges, q[1], q[2])}}

ProbeInBox(lat2, lon2, minLat, maxLat, minLon, maxLon) ==
    /\ 2 * minLat < lat2 /\ lat2 < 2 * maxLat
    /\ 2 * minLon < lon2 /\ lon2 < 2 * maxLon

ProbeInCell(lat2, lon2, cell) ==
    ProbeInBox(lat2, lon2, cell.bounds.minLat, cell.bounds.maxLat,
               cell.bounds.minLon, cell.bounds.maxLon)

ProbeInRegion(lat2, lon2) ==
    ProbeInBox(lat2, lon2, region.south, region.north, region.west, region.east)

\* No part of the region lies outside every cell.
RegionIsCovered ==
    \A lat2 \in ProbesBetween(LatEdges), lon2 \in ProbesBetween(LonEdges) :
        ProbeInRegion(lat2, lon2)
            => \E k \in DOMAIN gridCells : ProbeInCell(lat2, lon2, gridCells[k])

\* No part of a cell lies outside the region.
CellsStayInsideRegion ==
    \A k \in DOMAIN gridCells :
        /\ region.south <= gridCells[k].bounds.minLat
        /\ gridCells[k].bounds.maxLat <= region.north
        /\ region.west <= gridCells[k].bounds.minLon
        /\ gridCells[k].bounds.maxLon <= region.east

\* Two distinct cells share at most an edge or a corner.
CellsDoNotOverlap ==
    \A i, j \in DOMAIN gridCells :
        i # j =>
            LET a == gridCells[i].bounds
                b == gridCells[j].bounds
            IN  \/ a.maxLat <= b.minLat
                \/ b.maxLat <= a.minLat
                \/ a.maxLon <= b.minLon
                \/ b.maxLon <= a.minLon

\* The cells reach past the region only beyond its north and east edges,
\* and by less than one grid step.
OverhangBelowOneStep ==
    \A k \in DOMAIN gridCells :
        /\ region.south <= gridCells[k].bounds.minLat
        /\ region.west <= gridCells[k].bounds.minLon
        /\ gridCells[k].bounds.maxLat - region.north < GRID_LAT_STEP
        /\ gridCells[k].bounds.maxLon - region.east < GRID_LON_STEP

RangesAreWholeSteps ==
    /\ (region.north - region.south) % GRID_LAT_STEP = 0
    /\ (region.east - region.west) % GRID_LON_STEP = 0

(***************************************************************************)
(* C8, as claimed.  The union of the cells' bounding boxes is exactly the  *)
(* region - nothing of the region uncovered, nothing of a cell outside     *)
(* it - and two distinct cells overlap in at most an edge or a corner.     *)
(***************************************************************************)
C8_CellsTileRegionExactly ==
    phase # "start" =>
        /\ RegionIsCovered
        /\ CellsStayInsideRegion
        /\ CellsDoNotOverlap

(***************************************************************************)
(* C8, amended.  The cells cover the whole region and two distinct cells   *)
(* overlap in at most an edge or a corner; the grid starts on the          *)
(* region's south and west edges and reaches past its north and east       *)
(* edges by less than one grid step, staying inside the region exactly     *)
(* when both ranges are whole multiples of the steps.                      *)
(***************************************************************************)
C8_CellsCoverRegionWithOverhang ==
    phase # "start" =>
        /\ RegionIsCovered
        /\ CellsDoNotOverlap
        /\ OverhangBelowOneStep
        /\ CellsStayInsideRegion <=> RangesAreWholeSteps

\* A 2 x 2 grid over a region whose last row and column are partial.
C8_Witness ==
    /\ phase # "start"
    /\ Len(gridCells) = 4
    /\ ~RangesAreWholeSteps
    /\ ~CellsStayInsideRegion
    /\ \E k \in DOMAIN gridCells :
          /\ gridCells[k].bounds.maxLat > region.north
          /\ gridCells[k].bounds.maxLon > region.east

(***************************************************************************)
(* C9.  For a non-empty point set, a scored cell's minDistance is the      *)
(* least distance from the cell's centre to any business, and its          *)
(* nearestBusiness is a business at that distance.                         *)
(***************************************************************************)
C9_NearestBusinessIsAtMinimum ==
    (passes >= 1 /\ allBusinesses # <<>>) =>
        \A k \in DOMAIN gridCells :
            LET cell == gridCells[k]
            IN  /\ \A b \in RangeOf(allBusinesses) :
                      cell.minDistance <= DistanceToCenter(cell, b)
                /\ \E b \in RangeOf(allBusinesses) :
                      cell.minDistance = DistanceToCenter(cell, b)
                /\ cell.nearestBusiness \in RangeOf(allBusinesses)
                /\ DistanceToCenter(cell, cell.nearestBusiness) = cell.minDistance

\* A scored cell whose nearest business is the first one scanned, the one
\* scanned after it being farther away.
C9_Witness ==
    /\ passes >= 1
    /\ Len(allBusinesses) >= 2
    /\ \E k \in DOMAIN gridCells :
          /\ gridCells[k].nearestBusiness = allBusinesses[1]
          /\ DistanceToCenter(gridCells[k], allBusinesses[Len(allBusinesses)])
                > gridCells[k].minDistance

(***************************************************************************)
(* C10.  After one scoring pass on freshly built cells, a business is in   *)
(* a cell's businesses exactly when it lies within the cell's bounds,      *)
(* the bounds included; it is then exactly once in the bucket of its own   *)
(* category, and the sizes of a cell's buckets add up to businessCount.    *)
(***************************************************************************)
CountIn(seq, x) == Cardinality({k \in DOMAIN seq : seq[k] = x})

RECURSIVE SumOfBucketSizes(_, _)
SumOfBucketSizes(byCategory, cats) ==
    IF cats = {} THEN 0
    ELSE LET c == CHOOSE x \in cats : TRUE
         IN  Len(byCategory[c]) + SumOfBucketSizes(byCategory, cats \ {c})

C10_ContainmentIsInclusive ==
    passes = 1 =>
        \A k \in DOMAIN gridCells :
            LET cell == gridCells[k]
            IN  /\ \A b \in RangeOf(allBusinesses) :
                      /\ (b \in RangeOf(cell.businesses)) <=>
                            /\ cell.bounds.minLat <= b.lat
                            /\ b.lat <= cell.bounds.maxLat
                            /\ cell.bounds.minLon <= b.lon
                            /\ b.lon <= cell.bounds.maxLon
                      /\ (b \in RangeOf(cell.businesses)) =>
                            /\ CountIn(cell.businesses, b) = 1
                            /\ b.category \in DOMAIN cell.businessesByCategory
                            /\ CountIn(cell.businessesByCategory[b.category], b) = 1
                            /\ \A c \in DOMAIN cell.businessesByCategory :
                                  c # b.category
                                      => CountIn(cell.businessesByCategory[c], b) = 0
                /\ RangeOf(cell.businesses) \subseteq RangeOf(allBusinesses)
                /\ cell.businessCount = Len(cell.businesses)
                /\ SumOfBucketSizes(cell.businessesByCategory,
                                    DOMAIN cell.businessesByCategory)
                      = cell.businessCount

\* One pass done, and the business on the corner shared by four cells is
\* contained in each of the four.
C10_Witness ==
    /\ passes = 1
    /\ Len(gridCells) = 4
    /\ \E b \in RangeOf(allBusinesses) :
          \A k \in DOMAIN gridCells :
              /\ b \in RangeOf(gridCells[k].businesses)
              /\ b.lat \in {gridCells[k].bounds.minLat, gridCells[k].bounds.maxLat}
              /\ b.lon \in {gridCells[k].bounds.minLon, gridCells[k].bounds.maxLon}

(***************************************************************************)
(* Properties of chainWays, checked under SpecChain.                       *)
(***************************************************************************)
\* chainWays has returned from a call with at least one way.
ChainReturned == chainStep = "returned" /\ Len(waySegments) >= 1

\* The locals of the call that has returned.
ChainRun == chainWaysRun(waySegments)

\* No starting way could be chained with all the others.
NotAllChained == Len(waySegments) >= 2 /\ ChainRun.used < Len(waySegments)

IsClosedRing(ring) == Len(ring) >= 1 /\ coordsMatch(ring[1], ring[Len(ring)])

\* The points of a chain that do not match the point before them.
PointsApartFromPrevious(chain) ==
    Cardinality({i \in DOMAIN chain : i = 1 \/ ~coordsMatch(chain[i], chain[i - 1])})

\* C11: every ring chainWays returns (every result other than null) is a
\* valid closed polygon ring: its first and last points coincide within the
\* tolerance and it has at least 4 points of which at least 3 are distinct;
\* a chain with fewer than 3 distinct points is answered with null.
C11_RingIsValidPolygon ==
    (ChainReturned /\ chainOutcome # nullRing) =>
        /\ IsClosedRing(chainOutcome)
        /\ Len(chainOutcome) >= 4
        /\ Cardinality(RangeOf(chainOutcome)) >= 3

\* The ways are listed in ring order: each starts where the one before it
\* ends and the last ends where the first starts.
InRingOrder(segments) ==
    /\ Len(segments) >= 1
    /\ \A k \in 1..(Len(segments) - 1) : segments[k].endNode = segments[k + 1].startNode
    /\ segments[Len(segments)].endNode = segments[1].startNode

\* The coordinates of the ways one after the other, every way after the
\* first without its first point.
RECURSIVE JoinedOnce(_)
JoinedOnce(segments) ==
    IF Len(segments) = 1 THEN segments[1].coords
    ELSE JoinedOnce(SubSeq(segments, 1, Len(segments) - 1))
             \o Tail(segments[Len(segments)].coords)

RECURSIVE SumOfLengths(_)
SumOfLengths(segments) ==
    IF segments = <<>> THEN 0
    ELSE Len(Head(segments).coords) + SumOfLengths(Tail(segments))

\* C12: for ways given in ring order (such as the four sides of a square)
\* chainWays returns one closed ring that uses every way, lists every
\* shared endpoint once and ends with a point equal to its first (5 points
\* for the square).
C12_RingOrderGivesOneClosedRing ==
    (ChainReturned /\ InRingOrder(waySegments)) =>
        /\ chainOutcome = JoinedOnce(waySegments)
        /\ chainOutcome[Len(chainOutcome)] = chainOutcome[1]
        /\ Len(chainOutcome) = SumOfLengths(waySegments) - (Len(waySegments) - 1)
        /\ ChainRun.used = Len(waySegments)

C12_Witness ==
    /\ ChainReturned
    /\ waySegments = <<outerWayMember(1), outerWayMember(2),
                       outerWayMember(3), outerWayMember(4)>>
    /\ chainOutcome = <<CornerA, CornerB, CornerC, CornerD, CornerA>>

\* C13: when the ways cannot be joined into a complete ring (3 of the 4
\* sides chain) chainWays returns the best-effort chain closed back to its
\* first point, and what the caller receives tells it how many ways were
\* used out of how many were given: no call that used a different number
\* of ways, or was given a different number, returns the same value.
C13_ReportsUsedOfExpected ==
    (ChainReturned /\ NotAllChained /\ chainOutcome # nullRing) =>
        /\ IsClosedRing(chainOutcome)
        /\ \A other \in WaySegmentLists :
              chainWays(other) = chainOutcome =>
                  /\ chainWaysRun(other).used = ChainRun.used
                  /\ Len(other) = Len(waySegments)

SetMin(S) == CHOOSE m \in S : \A x \in S : m <= x

SetMax(S) == CHOOSE m \in S : \A x \in S : m >= x

\* C17: for every non-empty sequence of points calculateBounds returns the
\* minimum and the maximum of the latitudes and of the longitudes of all
\* its points, points with a coordinate equal to 0 included.
C17_BoundsOfAllPoints ==
    (kernelStep = "calculateBounds" /\ geometry # <<>>) =>
        kernelOutcome.value =
            [minLat |-> SetMin({geometry[k].lat : k \in DOMAIN geometry}),
             maxLat |-> SetMax({geometry[k].lat : k \in DOMAIN geometry}),
             minLon |-> SetMin({geometry[k].lon : k \in DOMAIN geometry}),
             maxLon |-> SetMax({geometry[k].lon : k \in DOMAIN geometry})]

\* A ring given with its closing point.
IsExplicitlyClosed(ring) == Len(ring) >= 2 /\ ring[1] = ring[Len(ring)]

\* The closed ring started k points later: the closing point is dropped,
\* the rest is rotated and closed again.
RotatedRing(ring, k) ==
    LET open == SubSeq(ring, 1, Len(ring) - 1)
        turned == SubSeq(open, k + 1, Len(open)) \o SubSeq(open, 1, k)
    IN  Append(turned, turned[1])

\* C18: for every closed ring calculateArea returns the same value for the
\* ring, for the ring started at any other of its points, and for the ring
\* in reversed orientation.
C18_AreaOfRotatedAndReversedRing ==
    (kernelStep = "calculateArea" /\ IsExplicitlyClosed(geometry)) =>
        /\ \A k \in 0..(Len(geometry) - 2) :
              calculateArea(RotatedRing(geometry, k)) = kernelOutcome.value
        /\ calculateArea(arrayReverse(geometry)) = kernelOutcome.value

C18_Witness ==
    /\ kernelStep = "calculateArea"
    /\ IsExplicitlyClosed(geometry)
    /\ kernelOutcome.value > MinimumArea
    /\ shoelaceSum(geometry) < 0
    /\ RotatedRing(geometry, 1) # geometry

\* C19: isPointInPolygon gives the same answer for a ring and for the ring
\* with its first point appended as closing point, for every point queried.
C19_ClosingPointChangesNothing ==
    (kernelStep = "isPointInPolygon" /\ geometry # <<>>) =>
        kernelOutcome.value =
            isPointInPolygon(point.lat, point.lon, Append(geometry, geometry[1]))

C19_Witness ==
    /\ kernelStep = "isPointInPolygon"
    /\ Len(geometry) >= 3
    /\ geometry[1] # geometry[Len(geometry)]
    /\ kernelOutcome.value = TRUE

(***************************************************************************)
(* Properties of loadNeighborhoods, checked under SpecLoad.                *)
(***************************************************************************)
\* The area of the polygon itself, in square metres, without the 0.01 km2
\* minimum.
PolygonArea(ring) ==
    (Abs(shoelaceSum(ring)) * AreaLatKmPerDegree * AreaLonKmPerDegree) \div 20000

\* C15: a reconstructed area whose ring is degenerate (the area of the
\* polygon is below the threshold of the filter, as for a ring of collinear
\* or collapsed points) is discarded by loadNeighborhoods: it is never among
\* the neighborhoods.
C15_DegenerateRingDiscarded ==
    \A k \in DOMAIN neighborhoods :
        "geometry" \in DOMAIN neighborhoods[k] =>
            PolygonArea(neighborhoods[k].geometry) > AreaThreshold

\* The order of the sources in the documentation.
DocumentedOrder == <<"area", "bbox", "geom", "portland", "geojson", "grid">>

\* C20: loadNeighborhoods tries its sources in the documented order (area
\* search, bounding box search, geometry query, Portland Open Data, local
\* neighborhoods.geojson, grid), a source only after every source before it
\* was tried without result; so the grid is never returned before the
\* local file was tried.
C20_SourcesInDocumentedOrder ==
    /\ Len(sourcesAttempted) <= Len(DocumentedOrder)
    /\ sourcesAttempted = SubSeq(DocumentedOrder, 1, Len(sourcesAttempted))
    /\ "grid" \in RangeOf(sourcesAttempted) => "geojson" \in RangeOf(sourcesAttempted)

(***************************************************************************)
(* Business data: loadData and fetch-data.js.                              *)
(***************************************************************************)

\* The cache file loads and holds at least one business.
CacheHoldsBusinesses ==
    /\ cacheResponse.kind = "parsed"
    /\ Len(cacheResponse.businesses) >= 1

\* C21: loadData uses businesses-data.json first.  When the file loads with
\* at least one business, no Overpass request is ever made and the cached
\* businesses are the ones kept; when it is missing, cannot be loaded or
\* parsed, or holds no business, loadData has requested every category from
\* Overpass by the time it completes; either way gridCells has been generated
\* when loadData completes.
C21_CacheFirstThenOverpass ==
    /\ CacheHoldsBusinesses => overpassRequests = {}
    /\ dataStep = "completed" =>
         /\ gridCells # <<>>
         /\ gridCells = generateGridCells(region)
         /\ IF CacheHoldsBusinesses
            THEN allBusinesses = cacheResponse.businesses
            ELSE overpassRequests = Categories

\* loadData completed on Overpass data after a cache file that did not parse.
C21_Witness ==
    /\ dataStep = "completed"
    /\ cacheResponse.kind = "unparsable"
    /\ overpassRequests = Categories
    /\ allBusinesses # <<>>

\* C22: the refresh script fetches the categories strictly one at a time.  At
\* most one Overpass request is in flight, and a category's request is issued
\* only right after the previous category's request has been answered
\* (successfully or not) and the delay that follows it has elapsed; the first
\* request is for the first category.
C22_OneRequestAtATime ==
    /\ Cardinality(requestsInFlight) <= 1
    /\ \A p \in DOMAIN fetchLog :
         fetchLog[p].event = "request" =>
           \/ /\ p = 1
              /\ fetchLog[p].category = CategoryOrder[1]
           \/ /\ p >= 3
              /\ fetchLog[p - 1].event = "delay"
              /\ fetchLog[p - 2].event = "answer"
              /\ \E k \in 2..Len(CategoryOrder) :
                   /\ fetchLog[p].category = CategoryOrder[k]
                   /\ fetchLog[p - 1].category = CategoryOrder[k - 1]
                   /\ fetchLog[p - 2].category = CategoryOrder[k - 1]

\* The second category's request is in flight after the first one failed.
C22_Witness ==
    /\ fetchStep = "awaitRequest"
    /\ requestsInFlight = {CategoryOrder[2]}
    /\ Len(fetchLog) = 4
    /\ fetchLog[2].answer.kind = "httpError"

\* buildGeometryFromRelationData gives a ring of at least 3 points.
Reconstructs(members) ==
    /\ buildGeometryFromRelationData(members) # nullRing
    /\ Len(buildGeometryFromRelationData(members)) >= 3

\* C23: a relation whose outer ring cannot be reconstructed is dropped alone.
\* After an area search that was answered, the areas built from the answer
\* are exactly its relations whose ring reconstructs, in the answer's order,
\* each with its ring, the bounds and the area of that ring; loading has not
\* failed, and it returns these areas when there is at least one.
C23_UnbuildableRelationDroppedAlone ==
    (overpassResponse.ok /\ sourcesAttempted = <<"area">>) =>
        /\ loadStep \in {"returned", "bbox"}
        /\ loadStep = "returned" <=> Len(neighborhoods) > 0
        /\ \A k \in DOMAIN overpassResponse.relations :
             Reconstructs(overpassResponse.relations[k])
               <=> \E i \in DOMAIN neighborhoods : neighborhoods[i].id = k
        /\ \A i \in DOMAIN neighborhoods :
             /\ neighborhoods[i].geometry =
                  buildGeometryFromRelationData(
                      overpassResponse.relations[neighborhoods[i].id])
             /\ neighborhoods[i].bounds = calculateBounds(neighborhoods[i].geometry)
             /\ neighborhoods[i].area = calculateArea(neighborhoods[i].geometry)
        /\ \A i, j \in DOMAIN neighborhoods :
             i < j => neighborhoods[i].id < neighborhoods[j].id

\* The first relation of the answer has no ring, the second one is returned.
C23_Witness ==
    /\ overpassResponse.ok
    /\ sourcesAttempted = <<"area">>
    /\ loadStep = "returned"
    /\ Len(overpassResponse.relations) = 2
    /\ ~Reconstructs(overpassResponse.relations[1])
    /\ Len(neighborhoods) = 1
    /\ neighborhoods[1].id = 2

(***************************************************************************)
(* chainWays: the starts it tries and the chain it keeps (SpecChain).      *)
(***************************************************************************)

\* The number of ways in the chain grown from the way at position i.
UsedBySeed(i) == Cardinality(chainFrom(waySegments, i).used)

SeedIsComplete(i) == UsedBySeed(i) = Len(waySegments)

\* The first start, in input order, whose chain uses every way.
FirstCompleteSeed ==
    CHOOSE i \in DOMAIN waySegments :
        SeedIsComplete(i) /\ \A j \in 1..(i - 1) : ~SeedIsComplete(j)

SomeSeedIsComplete ==
    /\ ChainReturned
    /\ Len(waySegments) >= 2
    /\ \E i \in DOMAIN waySegments : SeedIsComplete(i)

\* C24 as stated: with two or more ways chainWays returns the chain of the
\* first start that uses every way, as it is when its end coincides with its
\* first point and with the first point appended otherwise.
C24_FirstCompleteSeedClosedByPush ==
    SomeSeedIsComplete =>
        LET chain == chainFrom(waySegments, FirstCompleteSeed)
        IN  chainOutcome =
               IF coordsMatch(chain.currentEnd, chain.result[1])
               THEN chain.result
               ELSE Append(chain.result, chain.result[1])

\* C24, amended: with two or more ways chainWays returns the ring of the
\* first start, in input order, whose chain uses every way, whatever the
\* chains of later starts are: that chain as it is when its end coincides
\* with its first point within the tolerance; otherwise the chain without
\* its trailing points that match their predecessor, followed by a copy of
\* the first point unless the last point left already matches it.
C24_FirstCompleteSeedTrimmedAndClosed ==
    SomeSeedIsComplete =>
        LET chain == chainFrom(waySegments, FirstCompleteSeed).result
            end == chainFrom(waySegments, FirstCompleteSeed).currentEnd
        IN  IF coordsMatch(end, chain[1])
            THEN chainOutcome = chain
            ELSE \E n \in DOMAIN chain :
                   /\ \A i \in (n + 1)..Len(chain) : coordsMatch(chain[i], chain[i - 1])
                   /\ n = 1 \/ ~coordsMatch(chain[n], chain[n - 1])
                   /\ chainOutcome =
                        IF coordsMatch(chain[n], chain[1])
                        THEN SubSeq(chain, 1, n)
                        ELSE Append(SubSeq(chain, 1, n), chain[1])

\* A complete chain that ends with a point matching its predecessor: the
\* point is dropped before the ring is closed.
C24_Witness ==
    /\ ChainReturned
    /\ waySegments = <<outerWayMember(1), outerWayMember(9)>>
    /\ chainOutcome = <<CornerA, CornerB, CornerA>>

\* C25: when no start uses every way, the chain kept is that of the first
\* start in input order among those whose chain uses the most ways (a later
\* start replaces it only with strictly more ways); a ring that is returned
\* starts where that chain starts.
C25_FirstSeedWithMostWaysKept ==
    (ChainReturned /\ NotAllChained) =>
        \E i \in DOMAIN waySegments :
            /\ \A j \in DOMAIN waySegments : UsedBySeed(j) <= UsedBySeed(i)
            /\ \A j \in 1..(i - 1) : UsedBySeed(j) < UsedBySeed(i)
            /\ ChainRun.used = UsedBySeed(i)
            /\ ChainRun.chain = chainFrom(waySegments, i).result
            /\ chainOutcome = nullRing
                 \/ chainOutcome[1] = chainFrom(waySegments, i).result[1]

\* Two starts use one way each; the ring comes from the first.
C25_Witness ==
    /\ ChainReturned
    /\ NotAllChained
    /\ waySegments = <<outerWayMember(7), outerWayMember(9)>>
    /\ UsedBySeed(1) = UsedBySeed(2)
    /\ chainOutcome = <<CornerA, CornerB, CornerC, CornerA>>

\* C26: given exactly one way, chainWays returns its coordinates unchanged
\* when its last point equals its first, and otherwise the same coordinates
\* followed by a copy of the first point; the way passed in keeps its
\* coordinates.
C26_SingleWayClosedOnACopy ==
    [][(chainStep = "called" /\ Len(waySegments) = 1) =>
          /\ waySegments' = waySegments
          /\ chainOutcome' =
               IF waySegments[1].coords[1]
                    = waySegments[1].coords[Len(waySegments[1].coords)]
               THEN waySegments[1].coords
               ELSE Append(waySegments[1].coords, waySegments[1].coords[1])]_vars

\* A single way that is closed already has been returned as it is.
C26_Witness ==
    /\ chainStep = "returned"
    /\ waySegments = <<outerWayMember(10)>>
    /\ chainOutcome = <<CornerA, CornerB, CornerC, CornerA>>

\* The ways are those of one simple closed ring, in some order and each in
\* some direction.
FormsSimpleRing(segments) ==
    \E ring \in SimpleRings :
        /\ Len(segments) = Len(ring)
        /\ {segments[k].id : k \in DOMAIN segments} = {ring[k] : k \in DOMAIN ring}

VerticesOf(segments) ==
    UNION {RangeOf(segments[k].coords) : k \in DOMAIN segments}

\* C27: for ways that together form one simple closed ring, in every order
\* and with any of them listed backwards, chainWays uses every way and
\* returns a closed ring over the same set of vertices.
C27_RingWhateverTheArrangement ==
    (ChainReturned /\ FormsSimpleRing(waySegments)) =>
        /\ ChainRun.used = Len(waySegments)
        /\ chainOutcome # nullRing
        /\ IsClosedRing(chainOutcome)
        /\ RangeOf(chainOutcome) = VerticesOf(waySegments)

\* C28: chainWays returns for every input, and no start can extend its chain
\* more than N - 1 times for N ways: every extension adds one way that was
\* not in the chain, so that no way id is added twice to one chain.
C28_EachSeedExtendsAtMostNMinusOneTimes ==
    (ChainReturned /\ Len(waySegments) >= 2) =>
        \A i \in DOMAIN waySegments :
            /\ Len(chainFrom(waySegments, i).order) <= Len(waySegments) - 1
            /\ HasNoRepeat(<<waySegments[i].id>> \o chainFrom(waySegments, i).order)
            /\ chainFrom(waySegments, i).used
                 = {waySegments[i].id} \cup RangeOf(chainFrom(waySegments, i).order)
            /\ UsedBySeed(i) = 1 + Len(chainFrom(waySegments, i).order)

\* One start extends its chain N - 1 times, another cannot extend it at all.
C28_Witness ==
    /\ ChainReturned
    /\ Len(waySegments) = 3
    /\ \E i, j \in DOMAIN waySegments :
         /\ Len(chainFrom(waySegments, i).order) = 2
         /\ Len(chainFrom(waySegments, j).order) = 0

(***************************************************************************)
(* The filter panel and the marker layer (Spec).                           *)
(***************************************************************************)

\* C29: once loadData and initializeFilterPanel have run, and after every
\* change of a category checkbox or of the select-all checkbox,
\* activeCategoryFilters is the set of the category checkboxes that are
\* checked, the select-all checkbox is checked exactly when all of them
\* are, and the marker layer holds one marker for every business whose
\* category is in activeCategoryFilters and none for any other.
C29_FilterPanelAndMarkersAgree ==
    phase = "ready" =>
        /\ activeCategoryFilters =
             {c \in DOMAIN categoryCheckboxes : categoryCheckboxes[c]}
        /\ selectAllCheckbox.checked
             <=> \A c \in DOMAIN categoryCheckboxes : categoryCheckboxes[c]
        /\ RangeOf(businessMarkers) \subseteq RangeOf(allBusinesses)
        /\ \A b \in RangeOf(allBusinesses) :
             CountIn(businessMarkers, b)
               = IF b.category \in activeCategoryFilters THEN 1 ELSE 0

\* One of two categories is unchecked; one of two businesses has a marker.
C29_Witness ==
    /\ phase = "ready"
    /\ activeCategoryFilters = {"indie-coffee"}
    /\ ~selectAllCheckbox.checked
    /\ selectAllCheckbox.indeterminate
    /\ Len(allBusinesses) = 2
    /\ Len(businessMarkers) = 1

(***************************************************************************)
(* Failures of single categories (SpecData).                               *)
(***************************************************************************)

\* The businesses of one category, in order.
OfCategory(businesses, categoryId) ==
    SelectSeq(businesses, LAMBDA b : b.category = categoryId)

\* The businesses are the elements of the answer, tagged with the category,
\* if the answer is a list of elements, and none if the request failed.
HoldsAnswerOf(businesses, categoryId, answer) ==
    IF answer.kind = "ok"
    THEN /\ Len(OfCategory(businesses, categoryId)) = Len(answer.elements)
         /\ \A k \in DOMAIN answer.elements :
              /\ OfCategory(businesses, categoryId)[k].id = answer.elements[k].id
              /\ OfCategory(businesses, categoryId)[k].lat = answer.elements[k].lat
              /\ OfCategory(businesses, categoryId)[k].lon = answer.elements[k].lon
    ELSE OfCategory(businesses, categoryId) = <<>>

\* C30: a category whose request fails (request error, status other than
\* 200, body that does not parse) never aborts the load.  The script never
\* exits early: once every category has been answered and its delay is over
\* it writes businesses-data.json, and the file holds no business of a
\* failed category and every business of the others.  In the page, when
\* loadData completes on Overpass data, allBusinesses holds no business of a
\* failed category and every business of the others.
C30_FailedCategoryContributesNothing ==
    /\ fetchStep # "exited"
    /\ Len(fetchLog) = 3 * Len(CategoryOrder) => fetchStep \in {"write", "written"}
    /\ fetchStep = "written" =>
         \A k \in DOMAIN CategoryOrder :
             /\ fetchLog[3 * k - 1].event = "answer"
             /\ fetchLog[3 * k - 1].category = CategoryOrder[k]
             /\ HoldsAnswerOf(outputFile, CategoryOrder[k], fetchLog[3 * k - 1].answer)
    /\ (dataStep = "completed" /\ overpassRequests # {}) =>
         \A c \in Categories : HoldsAnswerOf(allBusinesses, c, overpassAnswers[c])

\* The script has written the file after the first category failed and the
\* second one answered with a business.
C30_Witness ==
    /\ fetchStep = "written"
    /\ fetchLog[2].answer.kind = "parseError"
    /\ fetchLog[5].answer.kind = "ok"
    /\ Len(outputFile) >= 1
    /\ \A k \in DOMAIN outputFile : outputFile[k].category = CategoryOrder[2]

====
